---- MODULE Spec2Model ----
(***************************************************************************)
(* Subscription table and live-event dispatch of lib-wallet-indexer.       *)
(*                                                                         *)
(* One server process is modelled.  `backend` says which class it runs:    *)
(*   "generic"  Generic with its default _getAddrSetsForComparison         *)
(*   "solana"   Solana extends Generic (overrides _getAddrSetsForComparison,*)
(*              subscribes through super._wsSubscribeAccount)              *)
(*   "ankr"     Ankr extends BaseServer (own _wsSubscribeAccount with      *)
(*              awaited _isAccount upstream calls, no height poller)       *)
(*   "ton"      TonCenter extends Generic (its _getHeightTxs)              *)
(* An action is what one handler does between two real suspension points   *)
(* (an upstream call or a timer).  An await of a promise that is already   *)
(* settled (the default _getAddrSetsForComparison, Solana's local address  *)
(* derivation) only yields to the microtask queue, so no socket event or   *)
(* timer runs in between: the dispatch of one height is one step.          *)
(***************************************************************************)
EXTENDS Integers, Sequences, FiniteSets, TLC

\* ---------------------------------------------------------------- bounds
\* _MAX_SUB_SIZE is 10000 in the source (generic.js:29); scaled down so
\* that the table can fill up.
MAX_SUB_SIZE == 2
\* the 50 of _subscribeToLogs
MAX_CONTRACTS == 50
\* toncenter.js: the most pages of one paginated call, and the page size
PAGINATION_LIMIT == 250
PageLimit == 200
\* highest block height the upstream reaches
MaxHeight == 1
\* longest result of _getHeightTxs
MaxTxs == 2
\* number of delivered frames the history keeps
MaxSent == 1
\* number of interests arrays ever stored in the table
MaxArrays == 2
\* subscribe requests suspended in an upstream call at one time (Ankr)
MaxInflight == 1
\* longest interests list of one connection (Ankr has no duplicate check)
MaxInterests == 2
\* number of _subToContract calls the history keeps
MaxCalls == 2
\* most transactions of one upstream block
MaxBlockTxs == 3
\* most runs of Tron's #subNewBlock in flight at once
MaxTicks == 2
\* the timeout of a Debouncer, in steps of the clock
Timeout == 2

Cids == {"c1", "c2", "c3"}
EV_SUB_ACCOUNT == "subscribeAccount"
\* the event names a caller of _addSub and _getEventSubs may pass
EventNames == {EV_SUB_ACCOUNT, "testEvent"}
\* callbacks and interests arrays handed to _addSub by a direct caller
SubCallbacks == {[send |-> "f", error |-> "fe"], [send |-> "g", error |-> "ge"]}

\* ------------------------------------------------------------- addresses
\* A string is a sequence of characters; NoAddr is a missing address
\* (undefined), NoToken a tx without token.
NoAddr == <<>>
NoToken == "none"
AddrXY == <<"x", "y">>
AddrX == <<"x">>
AddrUpper == <<"X", "y">>
AddrOther == <<"o">>

LowerChar(c) ==
  IF c = "X" THEN "x" ELSE IF c = "Y" THEN "y"
  ELSE IF c = "T" THEN "t" ELSE IF c = "S" THEN "s"
  ELSE IF c = "R" THEN "r" ELSE IF c = "Q" THEN "q" ELSE c
ToLowerCase(s) == [i \in DOMAIN s |-> LowerChar(s[i])]
LowerToken(t) == IF t = "T1" THEN "t1" ELSE IF t = "A1" THEN "a1" ELSE t

\* what a client may send as params of subscribeAccount: <<address, tokens>>
TableRequests == {<<NoAddr, <<>>>>, <<AddrXY, <<>>>>, <<AddrX, <<"t1">>>>}
\* requests that name tokens, one of them twice: the first client may send
\* either, the others the first
ContractRequests(c) ==
  IF c = "c1" THEN {<<AddrX, <<"t1">>>>, <<AddrXY, <<"t2", "t1">>>>}
  ELSE {<<AddrX, <<"t1">>>>}
\* an Ankr client sends a checksummed (mixed case) address and token
AnkrRequests == {<<AddrUpper, <<"T1">>>>}
\* Addresses without contract code, for which getCode answers '0x': the
\* token position of a request may name one of them
EthAccounts == {"A1", "a1"}
\* Ankr requests whose token list is all contracts, or holds an account
TokenRequests == {<<AddrUpper, <<"T1">>>>, <<AddrUpper, <<"T1", "A1">>>>}
\* Logs the upstream may push on a subscription that _subToContract
\* installed for log.address: a Transfer log that decodeLog accepts or one
\* it rejects, from and to in checksum case
AnkrLogs ==
  {[address |-> "t1", decodable |-> d, from |-> AddrOther, to |-> AddrUpper,
    blockNumber |-> n, transactionHash |-> "h1"] :
     d \in BOOLEAN, n \in 0..MaxHeight}
\* interests arrays a direct caller of _addSub hands in as param
ParamArrays == {<<<<AddrX, <<>>>>>>, <<<<AddrXY, <<"t1">>>>>>}
\* What a client may send as a websocket frame: text that JSON.parse
\* rejects (valid FALSE), or an object with or without a method.
NoMethod == "undefined"
Frames ==
  {[valid |-> FALSE, method |-> NoMethod, params |-> <<>>],
   [valid |-> TRUE, method |-> NoMethod, params |-> <<AddrXY, <<>>>>],
   [valid |-> TRUE, method |-> "close", params |-> <<>>]}
  \cup {[valid |-> TRUE, method |-> "subscribeAccount", params |-> rq] :
          rq \in TableRequests}

\* a token list longer than the cap of _subscribeToLogs, all distinct
ManyTokens == [i \in 1..(MAX_CONTRACTS + 1) |-> ToString(i)]
\* requests that name token contracts: one token, or a long list of them
LogRequests == {<<AddrX, <<"t1">>>>, <<AddrXY, ManyTokens>>}
\* In the poller's specification c1 is a client that may send any of three
\* requests and then disconnect; c2 a second subscriber of one address.
PollRequests(c) ==
  IF c = "c1" THEN {<<NoAddr, <<>>>>, <<AddrXY, <<>>>>, <<AddrX, <<"t1">>>>}
  ELSE IF c = "c2" THEN {<<AddrX, <<>>>>}
  ELSE {}
PollClosers == {"c1"}

\* In the specifications of the poller's progress two clients may each
\* subscribe to one address and disconnect, and a height has no or one tx.
HeightCids == {"c1", "c2"}
HeightRequests == {<<AddrX, <<>>>>}

\* normalized transactions an adapter may report
TxA == [hash |-> "h1", from |-> NoAddr, to |-> AddrX, token |-> NoToken]
TxB == [hash |-> "h2", from |-> AddrOther, to |-> AddrXY, token |-> NoToken]
TxC == [hash |-> "h3", from |-> AddrX, to |-> AddrOther, token |-> "t1"]
Txs == {TxA, TxB, TxC}
TxSeqs == UNION {[1..n -> Txs] : n \in 0..MaxTxs}
HeightTxSeqs == {<<>>, <<TxA>>}
\* normalized transactions that carry their value: none, or 3
TxZero == [hash |-> "h0", from |-> NoAddr, to |-> AddrX, token |-> NoToken,
           value |-> 0]
TxPaid == [hash |-> "h1", from |-> NoAddr, to |-> AddrX, token |-> NoToken,
           value |-> 3]
ValueTxSeqs == {<<>>, <<TxZero>>, <<TxPaid>>, <<TxPaid, TxZero>>}

\* ----------------------------------------------------------------- state
VARIABLES
  backend,          \* class of the running server
  conn,             \* conn[cid]: "open" | "closed" (websocket of that cid)
  subs,             \* _subs: Map in insertion order, seq of [cid, val]
  heap,             \* the interests arrays stored in rows, by identity
  contractLogSubs,  \* _contractLogSubs
  subToContractCalls, \* history of the _subToContract calls made
  inflight,         \* Ankr subscribes suspended in _isAccount
  startPc,          \* start(): "new" | "awaitHeight" | "started"
  chainHeight,      \* upstream height
  lastHeight,       \* _lastHeight
  heightProcessing, \* _heightProcessing
  pc,               \* _processHeight: "idle" | "getHeight" | "getTxs"
  currentHeight,    \* local currentHeight of _processHeight
  height,           \* local loop variable of _processHeight
  snap,             \* local subs of _processHeight: seq of [event, send]
  fetched,          \* history: the heights _getHeightTxs was called for
  startHeight,      \* history: the height start() read, -1 before
  rawBlock,         \* what the upstream answered to the last _getHeightTxs
  heightTxs,        \* what the last _getHeightTxs call returned
  eventSubs,        \* what the last direct _getEventSubs call returned
  lastProcessedBlock, \* Tron: #lastProcessedBlock
  tronTicks,        \* Tron: the runs of #subNewBlock, by timer tick
  tronSent,         \* Tron history: the native frames delivered
  tronCaches,       \* Tron: the two caches, each with its Debouncer
  tonPaging,        \* TonCenter: the _paginateIndexerCall in progress
  sendOut,          \* send callbacks invoked by the last step
  errOut,           \* error callbacks invoked by the last step
  sent,             \* history of delivered frames
  lastOp            \* the handler the last step ran: [op, cid, outcome]

vars == <<backend, conn, subs, heap, contractLogSubs, subToContractCalls,
          inflight, startPc,
          chainHeight, lastHeight, heightProcessing, pc, currentHeight,
          height, snap, fetched, startHeight, rawBlock, heightTxs, eventSubs,
          lastProcessedBlock, tronTicks, tronSent, tronCaches, tonPaging,
          sendOut, errOut, sent, lastOp>>

pollerVars == <<lastHeight, heightProcessing, pc, currentHeight, height, snap,
                fetched, startHeight>>
tableVars == <<subs, heap, contractLogSubs>>
tronVars == <<lastProcessedBlock, tronTicks, tronSent>>
adapterVars == <<rawBlock, heightTxs, eventSubs, tronVars, tronCaches,
                 tonPaging>>

\* -------------------------------------------------------- the table (Map)
\* A row value is the tombstone (0 in the source) or an object with the
\* callbacks and, per event name, the identity of its interests array (0
\* when the object has no such property): ev for subscribeAccount, other
\* for the second event name.
Tomb == [live |-> FALSE, send |-> "-", error |-> "-", ev |-> 0, other |-> 0]
\* userSubs[evName]
RowEvent(val, evName) == IF evName = EV_SUB_ACCOUNT THEN val.ev ELSE val.other
\* userSubs[evName] = param
WithEvent(val, evName, id) ==
  IF evName = EV_SUB_ACCOUNT THEN [val EXCEPT !.ev = id]
  ELSE [val EXCEPT !.other = id]
\* the object _addSub builds for a cid the table does not know
NewRow(send, error, evName, id) ==
  WithEvent([live |-> TRUE, send |-> send, error |-> error, ev |-> 0,
             other |-> 0], evName, id)

RowIndex(s, c) ==
  IF \E i \in 1..Len(s) : s[i].cid = c
  THEN CHOOSE i \in 1..Len(s) : s[i].cid = c
  ELSE 0
MapHas(s, c) == RowIndex(s, c) # 0
MapGet(s, c) == s[RowIndex(s, c)].val
\* Map.set keeps the position of an existing key and appends a new one
MapSet(s, c, v) ==
  IF MapHas(s, c)
  THEN [s EXCEPT ![RowIndex(s, c)].val = v]
  ELSE Append(s, [cid |-> c, val |-> v])
IsLive(row) == row.val.live
\* `userSubs === 0`: the row of cid c is the tombstone
IsTombstone(s, c) == MapHas(s, c) /\ ~MapGet(s, c).live
LiveCount(s) == Cardinality({i \in 1..Len(s) : IsLive(s[i])})

\* _getCidSubs: id of the interests array of cid, 0 for null
GetCidSubs(s, c) ==
  IF ~MapHas(s, c) THEN 0
  ELSE IF ~MapGet(s, c).live THEN 0
  ELSE MapGet(s, c).ev

\* _getEventSubs with a filter that lets every object through, whatever
\* properties it has
GetEventSubsEveryObject(s, evName) ==
  LET rows == SelectSeq(s, IsLive)
  IN [i \in 1..Len(rows) |->
        [event |-> RowEvent(rows[i].val, evName), send |-> rows[i].val.send]]

\* _getEventSubs(evName): the tombstone 0 and an object without the
\* property both fail the filter con[evName]
GetEventSubsOf(s, evName) ==
  LET Holds(row) == IsLive(row) /\ RowEvent(row.val, evName) # 0
      rows == SelectSeq(s, Holds)
  IN [i \in 1..Len(rows) |->
        [event |-> RowEvent(rows[i].val, evName), send |-> rows[i].val.send]]

\* _getEventSubs(EVENTS.SUB_ACCOUNT)
GetEventSubs(s) == GetEventSubsOf(s, EV_SUB_ACCOUNT)

\* the sweep with `v === null` as its test: no row is ever deleted
SweepTableNullTest(s) == s

\* the sweeper of start()
SweepTable(s) == SelectSeq(s, IsLive)

\* Garbage collection: an interests array that neither a live row nor the
\* poller's snapshot refers to can never be read again; its content is
\* dropped (its identity stays taken).
Referenced(s, sn, id) ==
  \/ \E i \in 1..Len(s) : s[i].val.live /\ id \in {s[i].val.ev, s[i].val.other}
  \/ \E i \in 1..Len(sn) : sn[i].event = id
Collect(h, s, sn) ==
  [id \in 1..Len(h) |-> IF Referenced(s, sn, id) THEN h[id] ELSE <<>>]

\* ------------------------------------------------------- _subscribeToLogs
\* contracts.forEach: every address that neither the list nor an earlier
\* element of contracts holds is pushed, in the order of contracts
PushContracts(cls, contracts) ==
  LET IsNew(i) == /\ \A k \in 1..Len(cls) : cls[k] # contracts[i]
                  /\ \A k \in 1..(i - 1) : contracts[k] # contracts[i]
      new == {i \in 1..Len(contracts) : IsNew(i)}
      Nth(k) == CHOOSE i \in new : Cardinality({j \in new : j < i}) = k - 1
  IN cls \o [k \in 1..Cardinality(new) |-> contracts[Nth(k)]]

\* _subscribeToLogs assigning the tokens of the call to the list
SubscribeToLogsAssigns(b, cls, contracts) == contracts

\* Generic pushes every token it has not seen; Ankr's version calls
\* _subToContract but never records the token.
SubscribeToLogs(b, cls, contracts) ==
  IF Len(cls) = MAX_CONTRACTS THEN cls
  ELSE IF b = "ankr" THEN cls
  ELSE PushContracts(cls, contracts)

\* the _subToContract calls one _subscribeToLogs(contracts) makes, in
\* order; Tron's version only adds to its set and makes none
SubToContractCalls(b, cls, contracts) ==
  LET Unknown(addr) == \A k \in 1..Len(cls) : cls[k] # addr
  IN IF Len(cls) = MAX_CONTRACTS \/ b = "tron" THEN <<>>
     ELSE IF b = "ankr" THEN SelectSeq(contracts, Unknown)
     ELSE LET pushed == PushContracts(cls, contracts)
          IN SubSeq(pushed, Len(cls) + 1, Len(pushed))

\* the history keeps the first MaxCalls calls
RecordCalls(hist, calls) ==
  SubSeq(hist \o calls, 1,
         IF Len(hist) + Len(calls) < MaxCalls
         THEN Len(hist) + Len(calls) ELSE MaxCalls)

\* ---------------------------------------------------------------- _addSub
\* data = [cid, send, error, evName, param]; param = [id, arr]: id is the
\* identity of the array handed in (0 for an array that no row holds yet,
\* which then gets the next identity), arr its content.  Result: the table
\* and the heap after the call.
ParamId(h, data) == IF data.param.id = 0 THEN Len(h) + 1 ELSE data.param.id
ParamHeap(h, data) ==
  IF data.param.id = 0 THEN Append(h, data.param.arr) ELSE h

\* _addSub without its `userSubs === 0` return: a tombstone is falsy, so
\* the row is rebuilt as for a cid the table does not know
AddSubNoTombstoneReturn(s, h, data) ==
  IF ~MapHas(s, data.cid) \/ ~MapGet(s, data.cid).live
  THEN [subs |-> MapSet(s, data.cid,
                   NewRow(data.send, data.error, data.evName, ParamId(h, data))),
        heap |-> ParamHeap(h, data)]
  ELSE [subs |-> MapSet(s, data.cid,
                   WithEvent(MapGet(s, data.cid), data.evName, ParamId(h, data))),
        heap |-> ParamHeap(h, data)]

\* _addSub that builds the object anew on every call: the callbacks of
\* the call replace those of the row and the other properties are lost
AddSubRebuildsRow(s, h, data) ==
  IF MapHas(s, data.cid) /\ ~MapGet(s, data.cid).live
  THEN [subs |-> s, heap |-> h]
  ELSE [subs |-> MapSet(s, data.cid,
                   NewRow(data.send, data.error, data.evName, ParamId(h, data))),
        heap |-> ParamHeap(h, data)]

\* _addSub
AddSub(s, h, data) ==
  IF MapHas(s, data.cid) /\ ~MapGet(s, data.cid).live
  THEN [subs |-> s, heap |-> h]
  ELSE IF ~MapHas(s, data.cid)
  THEN [subs |-> MapSet(s, data.cid,
                   NewRow(data.send, data.error, data.evName, ParamId(h, data))),
        heap |-> ParamHeap(h, data)]
  ELSE [subs |-> MapSet(s, data.cid,
                   WithEvent(MapGet(s, data.cid), data.evName, ParamId(h, data))),
        heap |-> ParamHeap(h, data)]

\* _wsCloseCid
WsCloseCidTable(s, c) == MapSet(s, c, Tomb)

\* ----------------------------------------------------- _normalizeAddress
NormalizeAddress(b, address) ==
  IF b = "ankr" THEN ToLowerCase(address) ELSE address

\* cidSubs.filter((sub) => sub[0] === address).length > 0
AcctExists(arr, address) == \E i \in 1..Len(arr) : arr[i][1] = address

\* the size check written with > for >=
AtCapacityStrict(s) == Len(s) > MAX_SUB_SIZE

\* the size check of _wsSubscribeAccount
AtCapacity(s) == Len(s) >= MAX_SUB_SIZE

Op(name, c, outcome) == [op |-> name, cid |-> c, outcome |-> outcome]
ErrorCb(c, msg) == <<[cid |-> c, error |-> msg]>>

\* The part of _wsSubscribeAccount from the duplicate check on: the new
\* table, heap and contract list, the error callbacks and the outcome.
\* An existing interests array is pushed to in place.
StoreInterest(b, s, h, cls, c, address, tokens, checkDup) ==
  LET id == GetCidSubs(s, c)
      cidSubs == IF id = 0 THEN <<>> ELSE h[id]
      pushed == Append(cidSubs, <<address, tokens>>)
      h1 == IF id = 0 THEN h ELSE [h EXCEPT ![id] = pushed]
      added == AddSub(s, h1, [cid |-> c, send |-> c, error |-> c,
                              evName |-> EV_SUB_ACCOUNT,
                              param |-> [id |-> id, arr |-> pushed]])
  IN IF checkDup /\ AcctExists(cidSubs, address)
     THEN [subs |-> s, heap |-> h, cls |-> cls, calls |-> <<>>,
           err |-> ErrorCb(c, EV_SUB_ACCOUNT), outcome |-> "duplicate"]
     ELSE [subs |-> added.subs, heap |-> added.heap,
           cls |-> SubscribeToLogs(b, cls, tokens),
           calls |-> SubToContractCalls(b, cls, tokens), err |-> <<>>,
           outcome |-> IF MapHas(s, c) /\ ~MapGet(s, c).live
                       THEN "dropped" ELSE "ok"]

\* Generic._wsSubscribeAccount (Solana calls it through super): no await
\* inside, the handler runs to its end when the message arrives.
GenericSubscribe(b, s, h, cls, c, address, tokens) ==
  IF address = NoAddr
  THEN [subs |-> s, heap |-> h, cls |-> cls, calls |-> <<>>,
        err |-> ErrorCb(c, "account not sent"), outcome |-> "no-account"]
  ELSE IF AtCapacity(s)
  THEN [subs |-> s, heap |-> h, cls |-> cls, calls |-> <<>>,
        err |-> ErrorCb(c, "server is not available"), outcome |-> "capacity"]
  ELSE StoreInterest(b, s, h, cls, c, NormalizeAddress(b, address), tokens, TRUE)

WsSubscribeAccount(c, address, tokens) ==
  /\ backend \in {"generic", "solana", "tron"}
  /\ conn[c] = "open"
  /\ LET r == GenericSubscribe(backend, subs, heap, contractLogSubs,
                               c, address, tokens)
     IN /\ Len(r.heap) <= MaxArrays
        /\ subs' = r.subs
        /\ heap' = r.heap
        /\ contractLogSubs' = r.cls
        /\ subToContractCalls' = RecordCalls(subToContractCalls, r.calls)
        /\ errOut' = r.err
        /\ lastOp' = Op("subscribe", c, r.outcome)
  /\ sendOut' = <<>>
  /\ UNCHANGED <<backend, conn, inflight, startPc, chainHeight, sent>>
  /\ UNCHANGED pollerVars
  /\ UNCHANGED adapterVars

\* Ankr._wsSubscribeAccount up to the first await
AnkrSubscribeBegin(c, account, tokens) ==
  /\ backend = "ankr"
  /\ conn[c] = "open"
  /\ IF AtCapacity(subs)
     THEN /\ errOut' = ErrorCb(c, "server is not available")
          /\ lastOp' = Op("subscribe", c, "capacity")
          /\ UNCHANGED inflight
     ELSE /\ Cardinality(inflight) < MaxInflight
          /\ inflight' = inflight \cup
               {[cid |-> c, account |-> account, tokens |-> tokens, stage |-> 1]}
          /\ inflight' # inflight
          /\ errOut' = <<>>
          /\ lastOp' = Op("subscribe", c, "await-isAccount")
  /\ sendOut' = <<>>
  /\ UNCHANGED subToContractCalls
  /\ UNCHANGED <<backend, conn, startPc, chainHeight, sent>>
  /\ UNCHANGED tableVars
  /\ UNCHANGED pollerVars
  /\ UNCHANGED adapterVars

\* await this._isAccount(account) returns isAcct (web3.eth.getCode)
AnkrIsAccountReturn(req, isAcct) ==
  /\ req \in inflight
  /\ req.stage = 1
  /\ IF ~isAcct
     THEN /\ inflight' = inflight \ {req}
          /\ errOut' = ErrorCb(req.cid, "not an eth account")
          /\ lastOp' = Op("subscribe", req.cid, "not-account")
     ELSE /\ inflight' = (inflight \ {req}) \cup {[req EXCEPT !.stage = 2]}
          /\ errOut' = <<>>
          /\ lastOp' = Op("subscribe", req.cid, "await-isContract")
  /\ sendOut' = <<>>
  /\ UNCHANGED subToContractCalls
  /\ UNCHANGED <<backend, conn, startPc, chainHeight, sent>>
  /\ UNCHANGED tableVars
  /\ UNCHANGED pollerVars
  /\ UNCHANGED adapterVars

\* await this._isAccount(tokens) returns isAcct; the rest of the handler
AnkrIsContractReturn(req, isAcct) ==
  /\ req \in inflight
  /\ req.stage = 2
  /\ inflight' = inflight \ {req}
  /\ IF isAcct
     THEN /\ errOut' = ErrorCb(req.cid, "not an eth contract")
          /\ lastOp' = Op("subscribe", req.cid, "not-contract")
          /\ UNCHANGED tableVars
          /\ UNCHANGED subToContractCalls
     ELSE LET tokens == [i \in DOMAIN req.tokens |-> LowerToken(req.tokens[i])]
              r == StoreInterest("ankr", subs, heap, contractLogSubs, req.cid,
                                 NormalizeAddress("ankr", req.account), tokens, FALSE)
          IN /\ Len(r.heap) <= MaxArrays
             /\ \A i \in 1..Len(r.heap) : Len(r.heap[i]) <= MaxInterests
             /\ subs' = r.subs
             /\ heap' = r.heap
             /\ contractLogSubs' = r.cls
             /\ subToContractCalls' = RecordCalls(subToContractCalls, r.calls)
             /\ errOut' = r.err
             /\ lastOp' = Op("subscribe", req.cid, r.outcome)
  /\ sendOut' = <<>>
  /\ UNCHANGED <<backend, conn, startPc, chainHeight, sent>>
  /\ UNCHANGED pollerVars
  /\ UNCHANGED adapterVars

\* the 'data' handler that _subToContract installs: a log that does not
\* decode is reported and dropped; for one that decodes the handler calls
\* this._emitEvent, a method that neither Ankr nor its base class defines,
\* so the call throws a TypeError and no callback is invoked
AnkrLogData(log) ==
  /\ backend = "ankr"
  /\ \E i \in DOMAIN subToContractCalls : subToContractCalls[i] = log.address
  /\ sendOut' = <<>>
  /\ errOut' = <<>>
  /\ lastOp' = Op("logData", "-",
                  IF log.decodable THEN "thrown" ELSE "undecodable")
  /\ UNCHANGED <<backend, conn, inflight, startPc, chainHeight, sent,
                 subToContractCalls>>
  /\ UNCHANGED tableVars
  /\ UNCHANGED pollerVars
  /\ UNCHANGED adapterVars

\* 'close' of the websocket: _wsCloseCid
WsCloseCid(c) ==
  /\ conn[c] = "open"
  /\ conn' = [conn EXCEPT ![c] = "closed"]
  /\ subs' = WsCloseCidTable(subs, c)
  /\ heap' = Collect(heap, WsCloseCidTable(subs, c), snap)
  /\ sendOut' = <<>>
  /\ errOut' = <<>>
  /\ lastOp' = Op("close", c, "ok")
  /\ UNCHANGED subToContractCalls
  /\ UNCHANGED <<backend, contractLogSubs, inflight, startPc,
                 chainHeight, sent>>
  /\ UNCHANGED pollerVars
  /\ UNCHANGED adapterVars

\* _parseMsg: the error of a frame that is no JSON, else its method
ParseMsg(frame) ==
  IF frame.valid
  THEN [error |-> "", method |-> frame.method]
  ELSE [error |-> "bad request format", method |-> NoMethod]

\* the 'message' handler of a connection: _parseMsg, then _processMsg
\* emits `ws-${rpc.method}`, to which the server listens for the methods
\* subscribeAccount and close; an event without listener does nothing
WsMessage(c, frame) ==
  /\ conn[c] = "open"
  /\ IF ParseMsg(frame).error # ""
     THEN /\ errOut' = ErrorCb(c, ParseMsg(frame).error)
          /\ sendOut' = <<>>
          /\ lastOp' = Op("message", c, "bad-format")
          /\ UNCHANGED subToContractCalls
          /\ UNCHANGED <<backend, conn, inflight, startPc, chainHeight, sent>>
          /\ UNCHANGED tableVars
          /\ UNCHANGED pollerVars
     ELSE IF ParseMsg(frame).method = EV_SUB_ACCOUNT
     THEN WsSubscribeAccount(c, frame.params[1], frame.params[2])
     ELSE IF ParseMsg(frame).method = "close"
     THEN /\ subs' = WsCloseCidTable(subs, c)
          /\ heap' = Collect(heap, WsCloseCidTable(subs, c), snap)
          /\ errOut' = <<>>
          /\ sendOut' = <<>>
          /\ lastOp' = Op("message", c, "close")
          /\ UNCHANGED subToContractCalls
          /\ UNCHANGED <<backend, conn, contractLogSubs, inflight, startPc,
                         chainHeight, sent>>
          /\ UNCHANGED pollerVars
     ELSE /\ errOut' = <<>>
          /\ sendOut' = <<>>
          /\ lastOp' = Op("message", c, "no-listener")
          /\ UNCHANGED subToContractCalls
          /\ UNCHANGED <<backend, conn, inflight, startPc, chainHeight, sent>>
          /\ UNCHANGED tableVars
          /\ UNCHANGED pollerVars
  /\ UNCHANGED adapterVars

\* a direct call of _addSub with a param array that no row holds yet
AddSubCall(c, evName, cb, arr) ==
  /\ LET added == AddSub(subs, heap,
                         [cid |-> c, send |-> cb.send, error |-> cb.error,
                          evName |-> evName, param |-> [id |-> 0, arr |-> arr]])
     IN /\ Len(added.heap) <= MaxArrays
        /\ subs' = added.subs
        /\ heap' = Collect(added.heap, added.subs, snap)
  /\ lastOp' = Op("addSub", c,
                  IF ~MapHas(subs, c) THEN "created"
                  ELSE IF MapGet(subs, c).live THEN "extended" ELSE "dropped")
  /\ sendOut' = <<>>
  /\ errOut' = <<>>
  /\ UNCHANGED <<backend, conn, contractLogSubs, inflight, startPc,
                 chainHeight, sent, subToContractCalls>>
  /\ UNCHANGED pollerVars
  /\ UNCHANGED adapterVars

\* a direct call of _getEventSubs(evName)
GetEventSubsCall(evName) ==
  /\ eventSubs' = GetEventSubsOf(subs, evName)
  /\ lastOp' = Op("getEventSubs", "-", evName)
  /\ sendOut' = <<>>
  /\ errOut' = <<>>
  /\ UNCHANGED <<backend, conn, inflight, startPc, chainHeight, sent,
                 subToContractCalls, rawBlock, heightTxs>>
  /\ UNCHANGED tronVars
  /\ UNCHANGED <<tronCaches, tonPaging>>
  /\ UNCHANGED tableVars
  /\ UNCHANGED pollerVars

\* the 5 s _subTimer armed at the end of start()
Sweep ==
  /\ startPc = "started"
  /\ subs' = SweepTable(subs)
  /\ sendOut' = <<>>
  /\ errOut' = <<>>
  /\ lastOp' = Op("sweep", "-", "ok")
  /\ UNCHANGED subToContractCalls
  /\ UNCHANGED <<backend, conn, heap, contractLogSubs, inflight, startPc,
                 chainHeight, sent>>
  /\ UNCHANGED pollerVars
  /\ UNCHANGED adapterVars


\* ---------------------------------------------------------- the matcher
\* new Set(str) iterates the string: the set of its characters, each a
\* string of length one.
SetOfString(str) == {<<str[i]>> : i \in DOMAIN str}
SetOfArray(arr) == {arr[i] : i \in DOMAIN arr}

\* getAssociatedTokenAddress(token, addr): an address derived from both
Ata(token, addr) == <<"@", token>> \o addr

\* _getAddrSetsForComparison: the normalizedAddrSet it returns.  Generic
\* hands the address string itself to new Set; Solana an array of addresses.
GetAddrSetsForComparison(b, tx, addr) ==
  IF b = "solana"
  THEN SetOfArray(IF tx.token # NoToken
                  THEN <<addr, Ata(tx.token, addr)>>
                  ELSE <<addr>>)
  ELSE SetOfString(NormalizeAddress(b, addr))

\* _isTxForAddress
IsTxForAddress(tx, normalizedAddress) ==
  tx.from \in normalizedAddress \/ tx.to \in normalizedAddress

RECURSIVE Flatten(_)
Flatten(ss) == IF ss = <<>> THEN <<>> ELSE Head(ss) \o Flatten(Tail(ss))

\* one send call of the dispatch loop; ti (position of tx in txs) and
\* tokens (of the interest that matched) are recorded for the properties
Frame(sub, interest, tx, ti, h) ==
  [cid |-> sub.send, addr |-> interest[1], tx |-> tx, token |-> tx.token,
   height |-> h, ti |-> ti, tokens |-> interest[2]]

\* what the history keeps of a delivered frame
SentKey(f) ==
  [cid |-> f.cid, hash |-> f.tx.hash, addr |-> f.addr, token |-> f.token,
   height |-> f.height]
SentKeys(frames) == [i \in 1..Len(frames) |-> SentKey(frames[i])]
Min(a, b) == IF a < b THEN a ELSE b
\* the history keeps the first MaxSent frames that were delivered
Record(hist, frames) ==
  SubSeq(hist \o SentKeys(frames), 1, Min(MaxSent, Len(hist) + Len(frames)))

\* the send calls of the loops of _processHeight for one height, in the
\* order the code makes them: for sub, for addr, for tx
InterestFrames(b, sub, interest, txs, h) ==
  LET all == [ti \in 1..Len(txs) |-> Frame(sub, interest, txs[ti], ti, h)]
      Hit(f) == IsTxForAddress(f.tx, GetAddrSetsForComparison(b, f.tx, f.addr))
  IN SelectSeq(all, Hit)
SubFrames(b, hp, sub, txs, h) ==
  Flatten([ai \in 1..Len(hp[sub.event]) |->
             InterestFrames(b, sub, hp[sub.event][ai], txs, h)])
DispatchFrames(b, hp, sn, txs, h) ==
  Flatten([si \in 1..Len(sn) |-> SubFrames(b, hp, sn[si], txs, h)])

\* ------------------------------------------------------ _processHeight
HasPoller == backend \in {"generic", "solana", "ton"}

\* _processHeight left without its finally block: the flag stays set
ExitProcessHeightKeepsFlag ==
  /\ heightProcessing' = TRUE
  /\ pc' = "idle"
  /\ currentHeight' = 0
  /\ height' = 0
  /\ snap' = <<>>
  /\ heap' = Collect(heap, subs, <<>>)
  /\ UNCHANGED fetched

\* _processHeight returns or throws: the finally block clears the flag; the
\* locals (currentHeight, height, subs) go out of scope
ExitProcessHeight ==
  /\ heightProcessing' = FALSE
  /\ pc' = "idle"
  /\ currentHeight' = 0
  /\ height' = 0
  /\ snap' = <<>>
  /\ heap' = Collect(heap, subs, <<>>)
  /\ UNCHANGED fetched

\* the loop head with `this._subs.size === 0` as its test for "no one is
\* listening": a tombstoned row passes for a subscriber
LoopHeadCountsRows(h, cur, last) ==
  IF h > cur
  THEN /\ ExitProcessHeight
       /\ lastHeight' = last
  ELSE IF subs = <<>>
  THEN /\ ExitProcessHeight
       /\ lastHeight' = cur
  ELSE /\ heightProcessing' = TRUE
       /\ pc' = "getTxs"
       /\ lastHeight' = last
       /\ currentHeight' = cur
       /\ height' = h
       /\ snap' = GetEventSubs(subs)
       /\ heap' = Collect(heap, subs, GetEventSubs(subs))
       /\ fetched' = fetched \cup {h}

\* the head of the for loop over heights, entered with loop variable h:
\* leaves the loop, takes the no-subscriber return, or suspends in
\* _getHeightTxs(h) with the snapshot taken
LoopHead(h, cur, last) ==
  IF h > cur
  THEN /\ ExitProcessHeight
       /\ lastHeight' = last
  ELSE IF GetEventSubs(subs) = <<>>
  THEN /\ ExitProcessHeight
       /\ lastHeight' = cur
  ELSE /\ heightProcessing' = TRUE
       /\ pc' = "getTxs"
       /\ lastHeight' = last
       /\ currentHeight' = cur
       /\ height' = h
       /\ snap' = GetEventSubs(subs)
       /\ heap' = Collect(heap, subs, GetEventSubs(subs))
       /\ fetched' = fetched \cup {h}

\* the setInterval callback running _processHeight without its guard: an
\* iteration starts whether or not one is in flight
PollTickUnguarded ==
  /\ HasPoller
  /\ startPc # "new"
  /\ lastOp' = Op("tick", "-", IF heightProcessing THEN "busy" ELSE "getHeight")
  /\ heightProcessing' = TRUE
  /\ pc' = "getHeight"
  /\ sendOut' = <<>>
  /\ errOut' = <<>>
  /\ UNCHANGED subToContractCalls
  /\ UNCHANGED <<backend, conn, inflight, startPc, chainHeight, sent,
                 lastHeight, currentHeight, height, snap, fetched, startHeight>>
  /\ UNCHANGED tableVars
  /\ UNCHANGED adapterVars

\* the setInterval callback of _subNewBlock fires
PollTick ==
  /\ HasPoller
  /\ startPc # "new"
  /\ IF heightProcessing
     THEN /\ lastOp' = Op("tick", "-", "busy")
          /\ UNCHANGED <<heightProcessing, pc>>
     ELSE /\ lastOp' = Op("tick", "-", "getHeight")
          /\ heightProcessing' = TRUE
          /\ pc' = "getHeight"
  /\ sendOut' = <<>>
  /\ errOut' = <<>>
  /\ UNCHANGED subToContractCalls
  /\ UNCHANGED <<backend, conn, inflight, startPc, chainHeight, sent,
                 lastHeight, currentHeight, height, snap, fetched, startHeight>>
  /\ UNCHANGED tableVars
  /\ UNCHANGED adapterVars

\* await this._getHeight() returns the upstream height
GetHeightReturn ==
  /\ pc = "getHeight"
  /\ LoopHead(lastHeight + 1, chainHeight, lastHeight)
  /\ sendOut' = <<>>
  /\ errOut' = <<>>
  /\ lastOp' = Op("getHeight", "-", "ok")
  /\ UNCHANGED subToContractCalls
  /\ UNCHANGED <<backend, conn, inflight, startPc, chainHeight, sent>>
  /\ UNCHANGED <<subs, contractLogSubs, startHeight>>
  /\ UNCHANGED adapterVars

\* await this._getHeight() rejects: the finally block runs
GetHeightFail ==
  /\ pc = "getHeight"
  /\ ExitProcessHeight
  /\ sendOut' = <<>>
  /\ errOut' = <<>>
  /\ lastOp' = Op("getHeight", "-", "failed")
  /\ UNCHANGED subToContractCalls
  /\ UNCHANGED <<backend, conn, inflight, startPc, chainHeight, sent, lastHeight>>
  /\ UNCHANGED <<subs, contractLogSubs, startHeight>>
  /\ UNCHANGED adapterVars

\* await this._getHeightTxs(height) returns txs (<<>> also stands for the
\* caught failure); every send returns; the loop goes on to the next height
GetHeightTxsReturn(txs) ==
  /\ pc = "getTxs"
  /\ LET frames == DispatchFrames(backend, heap, snap, txs, height)
     IN /\ sendOut' = frames
        /\ sent' = Record(sent, frames)
  /\ LoopHead(height + 1, currentHeight, height)
  /\ errOut' = <<>>
  /\ lastOp' = Op("dispatch", "-", "done")
  /\ UNCHANGED subToContractCalls
  /\ UNCHANGED <<backend, conn, inflight, startPc, chainHeight>>
  /\ UNCHANGED <<subs, contractLogSubs, startHeight>>
  /\ UNCHANGED adapterVars

\* await this._getHeightTxs(height) rejects: the catch handler answers []
\* for it and the loop carries on as after a fetch without transactions
GetHeightTxsFail ==
  /\ pc = "getTxs"
  /\ sendOut' = DispatchFrames(backend, heap, snap, <<>>, height)
  /\ LoopHead(height + 1, currentHeight, height)
  /\ errOut' = <<>>
  /\ lastOp' = Op("dispatch", "-", "fetch-failed")
  /\ UNCHANGED subToContractCalls
  /\ UNCHANGED <<backend, conn, inflight, startPc, chainHeight, sent>>
  /\ UNCHANGED <<subs, contractLogSubs, startHeight>>
  /\ UNCHANGED adapterVars

\* the same, but the k-th send call throws: the exception leaves
\* _processHeight through the finally block, _lastHeight stays
GetHeightTxsSendThrows(txs) ==
  /\ pc = "getTxs"
  /\ LET frames == DispatchFrames(backend, heap, snap, txs, height)
     IN \E k \in 1..Len(frames) :
          /\ sendOut' = SubSeq(frames, 1, k)
          /\ sent' = Record(sent, SubSeq(frames, 1, k - 1))
  /\ ExitProcessHeight
  /\ errOut' = <<>>
  /\ lastOp' = Op("dispatch", "-", "thrown")
  /\ UNCHANGED subToContractCalls
  /\ UNCHANGED <<backend, conn, inflight, startPc, chainHeight, lastHeight>>
  /\ UNCHANGED <<subs, contractLogSubs, startHeight>>
  /\ UNCHANGED adapterVars

\* ------------------------------------------------- Ankr: native transfers
\* Transactions of a block as web3.eth.getBlock(number, true) reports
\* them: the addresses in checksum (mixed) case or in lower case
EvmTxChecksum == [hash |-> "h1", from |-> AddrOther, to |-> AddrUpper]
EvmTxLower == [hash |-> "h2", from |-> ToLowerCase(AddrUpper), to |-> AddrOther]
EvmTxElsewhere == [hash |-> "h3", from |-> AddrOther, to |-> AddrOther]
EvmBlocks ==
  {<<>>, <<EvmTxChecksum>>, <<EvmTxLower>>, <<EvmTxElsewhere, EvmTxChecksum>>}

\* one send call of _filterBlockTx
EvmFrame(sub, addr, tx) == [cid |-> sub.send, tx |-> tx, addr |-> addr]

\* `tx.from === addr || tx.to === addr`
FilterBlockTxMatch(tx, addr) == tx.from = addr \/ tx.to = addr

\* Ankr._filterBlockTx(tx, filter, evName): for sub, for [addr] of the
\* interests array as it is when the block arrives
FilterBlockTx(hp, filter, tx) ==
  LET OfSub(sub) ==
        LET all == [ai \in 1..Len(hp[sub.event]) |->
                      EvmFrame(sub, hp[sub.event][ai][1], tx)]
            Hit(f) == FilterBlockTxMatch(f.tx, f.addr)
        IN SelectSeq(all, Hit)
  IN Flatten([si \in 1..Len(filter) |-> OfSub(filter[si])])

\* the loop of the 'data' handler over block.transactions
EvmBlockFrames(hp, filter, txs) ==
  Flatten([ti \in 1..Len(txs) |-> FilterBlockTx(hp, filter, txs[ti])])

\* The 'data' handler of the newHeads subscription up to its await: the
\* filter is taken before getBlock is called.  One handler is followed at
\* a time; snap holds its filter and pc its position.
AnkrNewHeads ==
  /\ backend = "ankr"
  /\ startPc = "started"
  /\ pc = "idle"
  /\ pc' = "getBlock"
  /\ snap' = GetEventSubs(subs)
  /\ heap' = Collect(heap, subs, GetEventSubs(subs))
  /\ sendOut' = <<>>
  /\ errOut' = <<>>
  /\ lastOp' = Op("newHeads", "-", "await-getBlock")
  /\ UNCHANGED subToContractCalls
  /\ UNCHANGED <<backend, conn, inflight, startPc, chainHeight, sent>>
  /\ UNCHANGED <<subs, contractLogSubs>>
  /\ UNCHANGED <<lastHeight, heightProcessing, currentHeight, height, fetched,
                 startHeight>>
  /\ UNCHANGED adapterVars

\* await web3.eth.getBlock(blockhead.number, true) returns the block with
\* the transactions txs: _filterBlockTx runs for each of them
AnkrGetBlockReturn(txs) ==
  /\ backend = "ankr"
  /\ pc = "getBlock"
  /\ sendOut' = EvmBlockFrames(heap, snap, txs)
  /\ rawBlock' = txs
  /\ pc' = "idle"
  /\ snap' = <<>>
  /\ heap' = Collect(heap, subs, <<>>)
  /\ errOut' = <<>>
  /\ lastOp' = Op("newHeads", "-", "filtered")
  /\ UNCHANGED subToContractCalls
  /\ UNCHANGED <<backend, conn, inflight, startPc, chainHeight, sent>>
  /\ UNCHANGED <<subs, contractLogSubs>>
  /\ UNCHANGED <<lastHeight, heightProcessing, currentHeight, height, fetched,
                 startHeight>>
  /\ UNCHANGED <<heightTxs, eventSubs, tronVars, tronCaches, tonPaging>>

\* getBlock answers null (`if (!block) return`) or rejects (the catch
\* logs): no transaction is filtered
AnkrGetBlockNone ==
  /\ backend = "ankr"
  /\ pc = "getBlock"
  /\ pc' = "idle"
  /\ snap' = <<>>
  /\ heap' = Collect(heap, subs, <<>>)
  /\ sendOut' = <<>>
  /\ errOut' = <<>>
  /\ lastOp' = Op("newHeads", "-", "no-block")
  /\ UNCHANGED subToContractCalls
  /\ UNCHANGED <<backend, conn, inflight, startPc, chainHeight, sent>>
  /\ UNCHANGED <<subs, contractLogSubs>>
  /\ UNCHANGED <<lastHeight, heightProcessing, currentHeight, height, fetched,
                 startHeight>>
  /\ UNCHANGED adapterVars

\* ------------------------------------------------------------ TonCenter
\* A TON address is the raw form workchain:hex the indexer reports
\* (<<"0", ":", h>>) or a friendly form with its flag (<<"U", h>> not
\* bounceable, <<"E", h>> bounceable).  new Address(a) parses both and
\* throws on anything else, a workchain other than 0 and -1 included.
TonAddressValid(a) ==
  \/ Len(a) = 3 /\ a[1] = "0" /\ a[2] = ":"
  \/ Len(a) = 2 /\ a[1] \in {"U", "E"}
TonAddressHash(a) == <<a[Len(a)]>>
\* TonCenter._normalizeAddress, for an address new Address accepts
TonNormalizeAddress(a, isContract) ==
  (IF isContract THEN <<"E">> ELSE <<"U">>) \o TonAddressHash(a)
\* TonCenter._normalizeTxHash: base64url to base64
TonNormalizeTxHash(hash) ==
  [i \in DOMAIN hash |-> IF hash[i] = "-" THEN "+"
                         ELSE IF hash[i] = "_" THEN "/" ELSE hash[i]]
\* Number(str) of the decimal strings the indexer reports
NumberOf(str) == IF str = "5" THEN 5 ELSE IF str = "7" THEN 7 ELSE 0

\* a field the indexer left out
NoValue == "undefined"
NoHash == <<>>
\* transactions of a masterchain block as the indexer reports them:
\* outMsgs is out_msgs.length, source and destination those of in_msg
TonIn1 == [hash |-> <<"h", "-">>, outMsgs |-> 0, source |-> <<"0", ":", "o">>,
           destination |-> <<"0", ":", "x">>, value |-> "5"]
TonIn2 == [hash |-> <<"k", "_">>, outMsgs |-> 0, source |-> <<"U", "o">>,
           destination |-> <<"0", ":", "y">>, value |-> "7"]
TonOut == [hash |-> <<"m">>, outMsgs |-> 1, source |-> <<"0", ":", "x">>,
           destination |-> <<"0", ":", "o">>, value |-> "5"]
TonExternal == [hash |-> <<"n">>, outMsgs |-> 0, source |-> NoAddr,
                destination |-> <<"0", ":", "x">>, value |-> NoValue]
TonBadSource == [hash |-> <<"p">>, outMsgs |-> 0, source |-> <<"9", ":", "o">>,
                 destination |-> <<"0", ":", "x">>, value |-> "5"]
RawTonTxs == {TonIn1, TonIn2, TonOut, TonExternal, TonBadSource}
RawTonBlocks == UNION {[1..n -> RawTonTxs] : n \in 0..MaxBlockTxs}

\* TonCenter._parseTx: a record, undefined, or an exception of
\* _normalizeAddress
TonParseTx(tx, ix) ==
  IF tx.outMsgs # 0 THEN [kind |-> "undefined"]
  ELSE IF tx.hash = NoHash THEN [kind |-> "undefined"]
  ELSE IF tx.source = NoAddr THEN [kind |-> "undefined"]
  ELSE IF tx.destination = NoAddr THEN [kind |-> "undefined"]
  ELSE IF tx.value = NoValue THEN [kind |-> "undefined"]
  ELSE IF ~TonAddressValid(tx.source) \/ ~TonAddressValid(tx.destination)
  THEN [kind |-> "throws"]
  ELSE [kind |-> "record",
        tx |-> [hash |-> TonNormalizeTxHash(tx.hash),
                from |-> TonNormalizeAddress(tx.source, FALSE),
                to |-> TonNormalizeAddress(tx.destination, FALSE),
                value |-> NumberOf(tx.value),
                blockNumber |-> ix]]

\* no _getHeightTxs call made yet
NoResult == [status |-> "none", ix |-> 0, txs |-> <<>>]

\* TonCenter._getHeightTxs(ix) when the indexer answers with one page of
\* transactions: Promise.all over _parseTx rejects as soon as one of them
\* throws, else the results are filtered with Boolean
TonHeightTxs(raws, ix) ==
  LET parsed == [i \in DOMAIN raws |-> TonParseTx(raws[i], ix)]
      IsRecord(r) == r.kind = "record"
      kept == SelectSeq(parsed, IsRecord)
  IN IF \E i \in DOMAIN parsed : parsed[i].kind = "throws"
     THEN [status |-> "rejected", ix |-> ix, txs |-> <<>>]
     ELSE [status |-> "returned", ix |-> ix,
           txs |-> [i \in DOMAIN kept |-> kept[i].tx]]

\* a call of _getHeightTxs(ix) to which the indexer answers raws
TonGetHeightTxs(ix, raws) ==
  /\ backend = "ton"
  /\ rawBlock' = raws
  /\ heightTxs' = TonHeightTxs(raws, ix)
  /\ sendOut' = <<>>
  /\ errOut' = <<>>
  /\ lastOp' = Op("getHeightTxs", "-", TonHeightTxs(raws, ix).status)
  /\ UNCHANGED eventSubs
  /\ UNCHANGED tronVars
  /\ UNCHANGED <<tronCaches, tonPaging>>
  /\ UNCHANGED <<backend, conn, inflight, startPc, chainHeight, sent,
                 subToContractCalls>>
  /\ UNCHANGED tableVars
  /\ UNCHANGED pollerVars

\* an incoming transaction whose in_msg.value is the string "0", alone in
\* its block or next to one of value 5
TonZero == [hash |-> <<"z">>, outMsgs |-> 0, source |-> <<"0", ":", "o">>,
            destination |-> <<"0", ":", "x">>, value |-> "0"]
ZeroTonBlocks == {<<>>, <<TonZero>>, <<TonIn1>>, <<TonZero, TonIn1>>}
\* the addresses a TON client may subscribe to: raw form, or none
TonRequests == {<<"0", ":", "x">>, NoAddr}

\* what the dispatch loop reads from a record of _parseTx: it has no token
TonRecordAsTx(r) ==
  [hash |-> r.hash, from |-> r.from, to |-> r.to, value |-> r.value,
   blockNumber |-> r.blockNumber, token |-> NoToken]

\* TonCenter._wsSubscribeAccount without tokens: _isAccount is
\* Address.isValid, which needs no upstream call, so the handler runs to
\* its end; the account is stored in its non-bounceable form
TonSubscribeAccount(c, account) ==
  /\ backend = "ton"
  /\ conn[c] = "open"
  /\ LET r == IF account = NoAddr
              THEN [subs |-> subs, heap |-> heap, cls |-> contractLogSubs,
                    calls |-> <<>>, err |-> ErrorCb(c, "account not sent"),
                    outcome |-> "no-account"]
              ELSE IF AtCapacity(subs)
              THEN [subs |-> subs, heap |-> heap, cls |-> contractLogSubs,
                    calls |-> <<>>,
                    err |-> ErrorCb(c, "server is not available"),
                    outcome |-> "capacity"]
              ELSE IF ~TonAddressValid(account)
              THEN [subs |-> subs, heap |-> heap, cls |-> contractLogSubs,
                    calls |-> <<>>, err |-> ErrorCb(c, "not an ton account"),
                    outcome |-> "not-account"]
              ELSE StoreInterest("ton", subs, heap, contractLogSubs, c,
                                 TonNormalizeAddress(account, FALSE), <<>>, TRUE)
     IN /\ Len(r.heap) <= MaxArrays
        /\ subs' = r.subs
        /\ heap' = r.heap
        /\ contractLogSubs' = r.cls
        /\ subToContractCalls' = RecordCalls(subToContractCalls, r.calls)
        /\ errOut' = r.err
        /\ lastOp' = Op("subscribe", c, r.outcome)
  /\ sendOut' = <<>>
  /\ UNCHANGED <<backend, conn, inflight, startPc, chainHeight, sent>>
  /\ UNCHANGED pollerVars
  /\ UNCHANGED adapterVars

\* await this._getHeightTxs(height) of a TonCenter server to which the
\* indexer answers raws: a rejection is caught and stands for [], and the
\* dispatch loop runs over the records of _parseTx
TonGetHeightTxsReturn(raws) ==
  /\ backend = "ton"
  /\ pc = "getTxs"
  /\ LET res == TonHeightTxs(raws, height)
         txs == [i \in DOMAIN res.txs |-> TonRecordAsTx(res.txs[i])]
         frames == DispatchFrames(backend, heap, snap, txs, height)
     IN /\ sendOut' = frames
        /\ sent' = Record(sent, frames)
        /\ heightTxs' = res
        /\ lastOp' = Op("dispatch", "-",
                        IF res.status = "rejected" THEN "fetch-failed" ELSE "done")
  /\ rawBlock' = raws
  /\ LoopHead(height + 1, currentHeight, height)
  /\ errOut' = <<>>
  /\ UNCHANGED subToContractCalls
  /\ UNCHANGED <<backend, conn, inflight, startPc, chainHeight>>
  /\ UNCHANGED <<subs, contractLogSubs, startHeight>>
  /\ UNCHANGED <<eventSubs, tronVars, tronCaches, tonPaging>>

\* ------------------------------------------------- _paginateIndexerCall
\* The call in progress: pc ("idle" | "call" while _callIndexer is awaited
\* | "done" | "rejected"), the loop variable i, offset, the upstream calls
\* made so far as [limit, offset], and ret.  The items of a page are taken
\* by their number: ret holds, for each page pushed, the offset it was
\* asked at and how many processed items it added, in the order of the
\* pushes.
NoPaging == [pc |-> "idle", i |-> 0, offset |-> 0, calls |-> <<>>, ret |-> <<>>]

\* numbers of items a page may hold: none, few, one short of the limit, or
\* the limit
PageSizes == {0, 1, PageLimit - 1, PageLimit}

\* the loop left only at an empty page
PageIsLastWhenEmpty(n) == n = 0

\* `if (items.length < limit) break`
PageIsLast(n) == n < PageLimit

\* what no step of the pagination changes
PagingFrame ==
  /\ sendOut' = <<>>
  /\ errOut' = <<>>
  /\ UNCHANGED <<backend, conn, inflight, startPc, chainHeight, sent,
                 subToContractCalls, rawBlock, heightTxs, eventSubs,
                 tronCaches>>
  /\ UNCHANGED tronVars
  /\ UNCHANGED tableVars
  /\ UNCHANGED pollerVars

\* _paginateIndexerCall is called and runs up to its first await
TonPaginateCall ==
  /\ backend = "ton"
  /\ tonPaging.pc # "call"
  /\ tonPaging' = [pc |-> "call", i |-> 0, offset |-> 0,
                   calls |-> <<[limit |-> PageLimit, offset |-> 0]>>,
                   ret |-> <<>>]
  /\ lastOp' = Op("paginate", "-", "call")
  /\ PagingFrame

\* _callIndexer answers with a page of n items and processFn returns: the
\* page is pushed, and the loop ends or asks for the next page
TonPageReturn(n) ==
  /\ backend = "ton"
  /\ tonPaging.pc = "call"
  /\ LET ret == Append(tonPaging.ret, [offset |-> tonPaging.offset, items |-> n])
         offset == tonPaging.offset + PageLimit
     IN IF PageIsLast(n)
        THEN /\ tonPaging' = [tonPaging EXCEPT !.pc = "done", !.ret = ret]
             /\ lastOp' = Op("paginate", "-", "short-page")
        ELSE IF tonPaging.i = PAGINATION_LIMIT - 1
        THEN /\ tonPaging' = [tonPaging EXCEPT !.pc = "done", !.ret = ret,
                                               !.offset = offset]
             /\ lastOp' = Op("paginate", "-", "page-limit")
        ELSE /\ tonPaging' = [pc |-> "call", i |-> tonPaging.i + 1,
                              offset |-> offset,
                              calls |-> Append(tonPaging.calls,
                                               [limit |-> PageLimit,
                                                offset |-> offset]),
                              ret |-> ret]
             /\ lastOp' = Op("paginate", "-", "next-page")
  /\ PagingFrame

\* _callIndexer or processFn rejects: so does _paginateIndexerCall
TonPageFail ==
  /\ backend = "ton"
  /\ tonPaging.pc = "call"
  /\ tonPaging' = [tonPaging EXCEPT !.pc = "rejected"]
  /\ lastOp' = Op("paginate", "-", "rejected")
  /\ PagingFrame

\* --------------------------------------------------------------- Solana
\* Transactions of a block as getBlock reports them: failed stands for
\* tx.err, meta.err or a status other than Ok; accountKeys[i] is the
\* address whose balance preBalances[i] and postBalances[i] give.
SolDeposit == [failed |-> FALSE, signature |-> "h1", preBalances |-> <<9, 0>>,
               postBalances |-> <<4, 5>>, accountKeys |-> <<AddrOther, AddrX>>,
               slot |-> 0]
SolFailed == [failed |-> TRUE, signature |-> "h2", preBalances |-> <<9, 0>>,
              postBalances |-> <<4, 5>>, accountKeys |-> <<AddrOther, AddrX>>,
              slot |-> 0]
SolElsewhere == [failed |-> FALSE, signature |-> "h3", preBalances |-> <<0, 9>>,
                 postBalances |-> <<5, 4>>, accountKeys |-> <<AddrOther, AddrX>>,
                 slot |-> 0]
SolanaBlocks ==
  {<<>>, <<SolDeposit>>, <<SolFailed>>, <<SolElsewhere, SolDeposit>>}

\* Solana._resolveNativeTransfersByBalanceDifferences: one transfer for
\* every account index whose balance grew, without from
SolanaNativeTransfers(tx) ==
  LET Grew(i) == /\ i <= Len(tx.preBalances)
                 /\ tx.postBalances[i] - tx.preBalances[i] > 0
                 /\ i <= Len(tx.accountKeys)
      all == [i \in DOMAIN tx.postBalances |->
                IF Grew(i)
                THEN <<[hash |-> tx.signature, to |-> tx.accountKeys[i],
                        value |-> tx.postBalances[i] - tx.preBalances[i],
                        blockNumber |-> tx.slot]>>
                ELSE <<>>]
  IN Flatten(all)

\* Solana._parseTx for a transaction without token balances: an array of
\* transfers, empty for a failed transaction
SolanaParseTx(tx) ==
  IF tx.failed THEN <<>> ELSE SolanaNativeTransfers(tx)

\* Solana._getHeightTxs: Promise.all over _parseTx, one array of transfers
\* per transaction of the block; the arrays are not concatenated
SolanaHeightTxs(block) == [i \in DOMAIN block |-> SolanaParseTx(block[i])]

\* what the dispatch loop reads from an element of txs that is an array:
\* tx.from, tx.to and tx.token are undefined
ArrayAsTx(arr) ==
  [hash |-> "undefined", from |-> NoAddr, to |-> NoAddr, token |-> NoToken,
   items |-> arr]

\* await this._getHeightTxs(height) of a Solana server returns for the
\* block the upstream reports; the dispatch loop runs over its elements
SolanaGetHeightTxsReturn(block) ==
  /\ backend = "solana"
  /\ pc = "getTxs"
  /\ LET txs == [i \in DOMAIN block |-> ArrayAsTx(SolanaHeightTxs(block)[i])]
         frames == DispatchFrames(backend, heap, snap, txs, height)
     IN /\ sendOut' = frames
        /\ sent' = Record(sent, frames)
  /\ rawBlock' = block
  /\ heightTxs' = [status |-> "returned", ix |-> height,
                   txs |-> SolanaHeightTxs(block)]
  /\ UNCHANGED eventSubs
  /\ UNCHANGED tronVars
  /\ UNCHANGED <<tronCaches, tonPaging>>
  /\ LoopHead(height + 1, currentHeight, height)
  /\ errOut' = <<>>
  /\ lastOp' = Op("dispatch", "-", "done")
  /\ UNCHANGED subToContractCalls
  /\ UNCHANGED <<backend, conn, inflight, startPc, chainHeight>>
  /\ UNCHANGED <<subs, contractLogSubs, startHeight>>

\* ----------------------------------------------------------------- Tron
\* TronWeb.address.fromHex: a hex address (prefix 41 or 0x) becomes its
\* base58 form, anything else is returned as it is
HexTo58(c) ==
  IF c = "a" THEN "R" ELSE IF c = "b" THEN "S" ELSE IF c = "c" THEN "Q" ELSE c
IsHexAddress(a) ==
  /\ Len(a) = 3
  /\ <<a[1], a[2]>> \in {<<"4", "1">>, <<"0", "x">>}
FromHex(a) == IF IsHexAddress(a) THEN <<"T", HexTo58(a[3])>> ELSE a

\* `0x${topic.substr(24, topic.length)}`: the address bytes of an indexed
\* topic, whose leading zero padding is two characters here
TopicAddress(topic) == <<"0", "x">> \o Tail(Tail(topic))

\* parseInt(data, 16)
HexDigit(c) == IF c = "5" THEN 5 ELSE IF c = "a" THEN 10 ELSE 0
RECURSIVE ParseInt16(_)
ParseInt16(data) ==
  IF data = <<>> THEN 0
  ELSE 16 * ParseInt16(SubSeq(data, 1, Len(data) - 1)) + HexDigit(data[Len(data)])

\* the interests of Tron clients: base58 address and token
TronAddr == <<"T", "S">>
TronToken == <<"T", "R">>
TronRequests == {<<TronAddr, <<TronToken>>>>, <<TronAddr, <<>>>>,
                 <<<<"T", "Q">>, <<TronToken>>>>}
TRANSFER_METHOD == <<"d", "d", "f">>
\* transaction-info records of getTransactionInfo that #isValidContractTx
\* accepts: receipt SUCCESS and a single log whose first topic is Transfer
TronInfo(contract, from, to) ==
  [id |-> "h1", fee |-> 7, blockNumber |-> 1, contract_address |-> contract,
   receipt |-> "SUCCESS",
   log |-> <<[topics |-> <<TRANSFER_METHOD, <<"0", "0", from>>, <<"0", "0", to>>>>,
              data |-> <<"0", "5">>]>>]
TronInfos == {TronInfo(<<"4", "1", "a">>, "c", "b"),
              TronInfo(<<"4", "1", "a">>, "b", "d")}

\* Tron.#parseContractTx
TronParseContractTx(tx) ==
  LET log == tx.log[1]
  IN [token |-> FromHex(tx.contract_address),
      height |-> tx.blockNumber,
      txid |-> tx.id,
      from |-> FromHex(TopicAddress(log.topics[2])),
      to |-> FromHex(TopicAddress(log.topics[3])),
      value |-> ParseInt16(log.data),
      fee |-> tx.fee,
      receipt |-> tx.receipt]

\* Tron._emitContractEvent(tx): the send calls, in the order of the loops
\* over _getEventSubs and the interests of each; a frame is { addr, ...tx }
TronEmitContractEvent(s, h, tx) ==
  LET sn == GetEventSubs(s)
      Hit(interest) ==
        /\ FromHex(tx.token) \in SetOfArray(interest[2])
        /\ ToLowerCase(interest[1]) \in {ToLowerCase(tx.to), ToLowerCase(tx.from)}
      FrameOf(sub, interest) ==
        [cid |-> sub.send, addr |-> interest[1], token |-> tx.token,
         height |-> tx.height, txid |-> tx.txid, from |-> tx.from,
         to |-> tx.to, value |-> tx.value, fee |-> tx.fee,
         receipt |-> tx.receipt]
      OfSub(sub) ==
        LET hits == SelectSeq(h[sub.event], Hit)
        IN [i \in DOMAIN hits |-> FrameOf(sub, hits[i])]
  IN Flatten([si \in DOMAIN sn |-> OfSub(sn[si])])

\* #subNewBlock after the transaction info of a contract transaction of
\* the block has arrived: #processContractTxs parses it and
\* _emitContractEvent runs for the parsed record.  The transaction was let
\* through because its contract is among _contractSubs.
TronContractTx(info) ==
  /\ backend = "tron"
  /\ \E i \in DOMAIN contractLogSubs :
       contractLogSubs[i] = FromHex(info.contract_address)
  /\ sendOut' = TronEmitContractEvent(subs, heap, TronParseContractTx(info))
  /\ errOut' = <<>>
  /\ lastOp' = Op("contractEvent", "-", "ok")
  /\ UNCHANGED <<backend, conn, inflight, startPc, chainHeight, sent,
                 subToContractCalls>>
  /\ UNCHANGED tableVars
  /\ UNCHANGED pollerVars
  /\ UNCHANGED adapterVars

\* a run of #subNewBlock that is not in flight
IdleTick == [pc |-> "idle", lo |-> 0, height |-> 0]

\* the block getCurrentBlock answers with at upstream height h: one
\* TransferContract transaction that #parseTx accepts, from TQ to TS
TronBlockTxs(h) ==
  <<[txid |-> <<"b", h>>, value |-> 5, to |-> <<"T", "S">>,
     from |-> <<"T", "Q">>, height |-> h]>>

\* #processTxs: the send calls in the order of its loops, for tx, for sub,
\* for [addr] of sub.event; a frame is { tx, addr }
TronProcessTxs(s, h, txs) ==
  LET sn == GetEventSubs(s)
      Hit(tx, interest) ==
        ToLowerCase(interest[1]) \in {ToLowerCase(tx.from), ToLowerCase(tx.to)}
      OfSub(tx, sub) ==
        LET hits == SelectSeq(h[sub.event], LAMBDA interest : Hit(tx, interest))
        IN [i \in DOMAIN hits |-> [cid |-> sub.send, tx |-> tx, addr |-> hits[i][1]]]
      OfTx(tx) == Flatten([si \in DOMAIN sn |-> OfSub(tx, sn[si])])
  IN Flatten([ti \in DOMAIN txs |-> OfTx(txs[ti])])

\* what the history keeps of a native frame
TronSentKey(f) ==
  [cid |-> f.cid, addr |-> f.addr, txid |-> f.tx.txid, height |-> f.tx.height]

\* the upstream chain of a Tron server grows by a block
TronNewBlock ==
  /\ backend = "tron"
  /\ chainHeight < MaxHeight + 1
  /\ chainHeight' = chainHeight + 1
  /\ sendOut' = <<>>
  /\ errOut' = <<>>
  /\ lastOp' = Op("newBlock", "-", "ok")
  /\ UNCHANGED <<backend, conn, inflight, startPc, sent, subToContractCalls>>
  /\ UNCHANGED tableVars
  /\ UNCHANGED pollerVars
  /\ UNCHANGED adapterVars

\* the setInterval callback of Tron.start fires: #subNewBlock runs up to
\* `await this.tronweb.trx.getCurrentBlock()`.  Nothing tells it whether
\* an earlier run is still in flight.
TronTick(t) ==
  /\ backend = "tron"
  /\ tronTicks[t].pc = "idle"
  /\ \A u \in 1..(t - 1) : tronTicks[u].pc # "idle"
  /\ IF GetEventSubs(subs) = <<>>
     THEN /\ lastOp' = Op("tronTick", "-", "no-subscribers")
          /\ UNCHANGED tronTicks
     ELSE /\ lastOp' = Op("tronTick", "-", "getCurrentBlock")
          /\ tronTicks' = [tronTicks EXCEPT
                             ![t] = [pc |-> "getBlock", lo |-> chainHeight,
                                     height |-> 0]]
  /\ sendOut' = <<>>
  /\ errOut' = <<>>
  /\ UNCHANGED <<backend, conn, inflight, startPc, chainHeight, sent,
                 subToContractCalls, rawBlock, heightTxs, eventSubs,
                 lastProcessedBlock, tronSent, tronCaches, tonPaging>>
  /\ UNCHANGED tableVars
  /\ UNCHANGED pollerVars

\* getCurrentBlock answers run t with the block of height h, a height the
\* chain had between the call and now; a block without number (0) makes
\* the run throw into its catch
TronGetCurrentBlockReturn(t, h) ==
  /\ backend = "tron"
  /\ tronTicks[t].pc = "getBlock"
  /\ h \in tronTicks[t].lo..chainHeight
  /\ IF h = 0
     THEN /\ lastOp' = Op("getCurrentBlock", "-", "thrown")
          /\ sendOut' = <<>>
          /\ tronTicks' = [tronTicks EXCEPT ![t] = IdleTick]
          /\ UNCHANGED <<lastProcessedBlock, tronSent>>
     ELSE IF h = lastProcessedBlock
     THEN /\ lastOp' = Op("getCurrentBlock", "-", "same-height")
          /\ sendOut' = <<>>
          /\ tronTicks' = [tronTicks EXCEPT ![t] = IdleTick]
          /\ UNCHANGED <<lastProcessedBlock, tronSent>>
     ELSE LET frames == TronProcessTxs(subs, heap, TronBlockTxs(h))
          IN /\ sendOut' = frames
             /\ tronSent' = tronSent \cup
                              {TronSentKey(frames[i]) : i \in DOMAIN frames}
             /\ IF contractLogSubs # <<>>
                THEN /\ lastOp' = Op("getCurrentBlock", "-", "await-contractTxs")
                     /\ tronTicks' = [tronTicks EXCEPT
                                        ![t] = [pc |-> "contractTxs", lo |-> 0,
                                                height |-> h]]
                     /\ UNCHANGED lastProcessedBlock
                ELSE /\ lastOp' = Op("getCurrentBlock", "-", "processed")
                     /\ tronTicks' = [tronTicks EXCEPT ![t] = IdleTick]
                     /\ lastProcessedBlock' = h
  /\ errOut' = <<>>
  /\ UNCHANGED <<backend, conn, inflight, startPc, chainHeight, sent,
                 subToContractCalls, rawBlock, heightTxs, eventSubs,
                 tronCaches, tonPaging>>
  /\ UNCHANGED tableVars
  /\ UNCHANGED pollerVars

\* await this.#processContractTxs(txs) returns to run t the parsed records
\* of infos; _emitContractEvent runs for each and the run ends
TronContractTxsReturn(t, infos) ==
  /\ backend = "tron"
  /\ tronTicks[t].pc = "contractTxs"
  /\ \A k \in DOMAIN infos :
       \E i \in DOMAIN contractLogSubs :
         contractLogSubs[i] = FromHex(infos[k].contract_address)
  /\ sendOut' = Flatten([k \in DOMAIN infos |->
                   TronEmitContractEvent(subs, heap, TronParseContractTx(infos[k]))])
  /\ lastProcessedBlock' = tronTicks[t].height
  /\ tronTicks' = [tronTicks EXCEPT ![t] = IdleTick]
  /\ errOut' = <<>>
  /\ lastOp' = Op("contractTxs", "-", "processed")
  /\ UNCHANGED <<backend, conn, inflight, startPc, chainHeight, sent,
                 subToContractCalls, rawBlock, heightTxs, eventSubs, tronSent,
                 tronCaches, tonPaging>>
  /\ UNCHANGED tableVars
  /\ UNCHANGED pollerVars

\* ------------------------------------------------- Tron's two caches
\* #blockTxsCache (keys: block numbers) and #transactionInfoCache (keys:
\* transaction ids), each cleared by a Debouncer of its own.  Of a cache
\* the model keeps the keys it holds (entries), the keys whose upstream
\* call is awaited (calls), the timers of setTimeout that are pending, each
\* as the time left until it is due (pending, in the order of arming;
\* this.timer is the one armed last), and the time since the last write
\* (age, a history that stops counting at Timeout).
CacheNames == {"blockTxs", "txInfo"}
CacheKeys == {"k1", "k2"}
EmptyCache == [entries |-> {}, calls |-> {}, pending |-> <<>>, age |-> Timeout]

\* Debouncer.reset without its clearTimeout: the timer armed before stays
DebouncerResetNoClear(pending) == Append(pending, Timeout)

\* Debouncer.reset: clearTimeout(this.timer) takes the timer armed last
\* out, if it is still pending, and setTimeout arms a new one
DebouncerReset(pending) ==
  (IF pending = <<>> THEN <<>> ELSE SubSeq(pending, 1, Len(pending) - 1))
    \o <<Timeout>>

\* what no step of a cache changes
CacheFrame ==
  /\ sendOut' = <<>>
  /\ errOut' = <<>>
  /\ UNCHANGED <<backend, conn, inflight, startPc, chainHeight, sent,
                 subToContractCalls, rawBlock, heightTxs, eventSubs,
                 tonPaging>>
  /\ UNCHANGED tronVars
  /\ UNCHANGED tableVars
  /\ UNCHANGED pollerVars

\* #getBlockTransactions(k) or #getTransactionInfo(k) up to its await: a
\* key the cache holds is answered from it, for any other the upstream is
\* called
CacheRead(n, k) ==
  /\ backend = "tron"
  /\ IF k \in tronCaches[n].entries
     THEN /\ lastOp' = Op("cacheRead", n, "hit")
          /\ UNCHANGED tronCaches
     ELSE /\ k \notin tronCaches[n].calls
          /\ lastOp' = Op("cacheRead", n, "upstream")
          /\ tronCaches' = [tronCaches EXCEPT ![n].calls = @ \cup {k}]
  /\ CacheFrame

\* the upstream call for k returns.  A block with transactions or a
\* transaction-info object is stored and the Debouncer reset; an empty
\* block or a rejected call stores nothing.
CacheFetchReturn(n, k, stored) ==
  /\ backend = "tron"
  /\ k \in tronCaches[n].calls
  /\ IF stored
     THEN /\ lastOp' = Op("cacheWrite", n, "stored")
          /\ tronCaches' = [tronCaches EXCEPT
                              ![n] = [entries |-> @.entries \cup {k},
                                      calls |-> @.calls \ {k},
                                      pending |-> DebouncerReset(@.pending),
                                      age |-> 0]]
     ELSE /\ lastOp' = Op("cacheWrite", n, "nothing")
          /\ tronCaches' = [tronCaches EXCEPT ![n].calls = @ \ {k}]
  /\ CacheFrame

\* the callback of a timer that is due runs: the cache is cleared
DebouncerFires(n) ==
  /\ backend = "tron"
  /\ tronCaches[n].pending # <<>>
  /\ tronCaches[n].pending[1] = 0
  /\ tronCaches' = [tronCaches EXCEPT ![n].entries = {},
                                      ![n].pending = Tail(@)]
  /\ lastOp' = Op("cacheClear", n, "ok")
  /\ CacheFrame

\* the clock advances by one step; a timer that is due runs first
TimePasses ==
  /\ backend = "tron"
  /\ \A n \in CacheNames : \A i \in DOMAIN tronCaches[n].pending :
       tronCaches[n].pending[i] > 0
  /\ \E n \in CacheNames : tronCaches[n].age < Timeout
  /\ tronCaches' =
       [n \in CacheNames |->
          [tronCaches[n] EXCEPT
             !.pending = [i \in DOMAIN @ |-> @[i] - 1],
             !.age = IF @ < Timeout THEN @ + 1 ELSE @]]
  /\ lastOp' = Op("time", "-", "ok")
  /\ CacheFrame

\* ---------------------------------------------------------------- start
\* start() up to `await this._getHeight()`: _subNewBlock has armed the timer
StartSubNewBlock ==
  /\ HasPoller
  /\ startPc = "new"
  /\ startPc' = "awaitHeight"
  /\ sendOut' = <<>>
  /\ errOut' = <<>>
  /\ lastOp' = Op("start", "-", "await-getHeight")
  /\ UNCHANGED subToContractCalls
  /\ UNCHANGED <<backend, conn, inflight, chainHeight, sent>>
  /\ UNCHANGED tableVars
  /\ UNCHANGED pollerVars
  /\ UNCHANGED adapterVars

\* the rest of start(): _lastHeight = height, the sweeper is armed
StartGetHeightReturn ==
  /\ HasPoller
  /\ startPc = "awaitHeight"
  /\ startPc' = "started"
  /\ lastHeight' = chainHeight
  /\ startHeight' = chainHeight
  /\ UNCHANGED fetched
  /\ sendOut' = <<>>
  /\ errOut' = <<>>
  /\ lastOp' = Op("start", "-", "started")
  /\ UNCHANGED subToContractCalls
  /\ UNCHANGED <<backend, conn, inflight, chainHeight, sent,
                 heightProcessing, pc, currentHeight, height, snap>>
  /\ UNCHANGED tableVars
  /\ UNCHANGED adapterVars

\* Ankr.start(): the sweeper is armed after the awaited upstream calls
AnkrStart ==
  /\ backend = "ankr"
  /\ startPc = "new"
  /\ startPc' = "started"
  /\ sendOut' = <<>>
  /\ errOut' = <<>>
  /\ lastOp' = Op("start", "-", "started")
  /\ UNCHANGED subToContractCalls
  /\ UNCHANGED <<backend, conn, inflight, chainHeight, sent>>
  /\ UNCHANGED tableVars
  /\ UNCHANGED pollerVars
  /\ UNCHANGED adapterVars

\* the upstream chain grows by one block
NewBlock ==
  /\ HasPoller
  /\ chainHeight < MaxHeight
  /\ chainHeight' = chainHeight + 1
  /\ sendOut' = <<>>
  /\ errOut' = <<>>
  /\ lastOp' = Op("newBlock", "-", "ok")
  /\ UNCHANGED subToContractCalls
  /\ UNCHANGED <<backend, conn, inflight, startPc, sent>>
  /\ UNCHANGED tableVars
  /\ UNCHANGED pollerVars
  /\ UNCHANGED adapterVars

\* ------------------------------------------------------ specifications
InitWith(backends) ==
  /\ backend \in backends
  /\ conn = [c \in Cids |-> "open"]
  /\ subs = <<>>
  /\ heap = <<>>
  /\ contractLogSubs = <<>>
  /\ subToContractCalls = <<>>
  /\ inflight = {}
  /\ startPc = "new"
  /\ chainHeight = 0
  /\ lastHeight = -1
  /\ heightProcessing = FALSE
  /\ pc = "idle"
  /\ currentHeight = 0
  /\ height = 0
  /\ snap = <<>>
  /\ fetched = {}
  /\ startHeight = -1
  /\ rawBlock = <<>>
  /\ heightTxs = NoResult
  /\ eventSubs = <<>>
  /\ lastProcessedBlock = 0
  /\ tronTicks = [t \in 1..MaxTicks |-> IdleTick]
  /\ tronSent = {}
  /\ tronCaches = [n \in CacheNames |-> EmptyCache]
  /\ tonPaging = NoPaging
  /\ sendOut = <<>>
  /\ errOut = <<>>
  /\ sent = <<>>
  /\ lastOp = Op("init", "-", "ok")

\* a Generic server: the handlers that write the subscription table, and
\* start(); the poller, which writes none of it, is left to SpecPoll
NextTable ==
  \/ \E c \in Cids, rq \in TableRequests : WsSubscribeAccount(c, rq[1], rq[2])
  \/ \E c \in Cids : WsCloseCid(c)
  \/ Sweep
  \/ StartSubNewBlock
  \/ StartGetHeightReturn

\* an Ankr server: subscribe with its awaited upstream checks, close, sweep
NextAnkr ==
  \/ \E c \in Cids, rq \in AnkrRequests : AnkrSubscribeBegin(c, rq[1], rq[2])
  \/ \E req \in inflight, r \in BOOLEAN : AnkrIsAccountReturn(req, r)
  \/ \E req \in inflight, r \in BOOLEAN : AnkrIsContractReturn(req, r)
  \/ \E c \in Cids : WsCloseCid(c)
  \/ Sweep
  \/ AnkrStart

\* an Ankr server whose clients may name a plain account as a token
NextTokens ==
  \/ \E c \in HeightCids, rq \in TokenRequests :
       AnkrSubscribeBegin(c, rq[1], rq[2])
  \/ \E req \in inflight, r \in BOOLEAN : AnkrIsAccountReturn(req, r)
  \/ \E req \in inflight, r \in BOOLEAN : AnkrIsContractReturn(req, r)
  \/ \E c \in HeightCids : WsCloseCid(c)
  \/ \E log \in AnkrLogs : AnkrLogData(log)
  \/ Sweep
  \/ AnkrStart

\* a TonCenter adapter asked for the transactions of heights
NextTon ==
  \E ix \in 0..MaxHeight, raws \in RawTonBlocks : TonGetHeightTxs(ix, raws)

\* a Solana server with one client, its poller fed by the blocks of the
\* upstream
NextSolana ==
  \/ \E rq \in HeightRequests : WsSubscribeAccount("c1", rq[1], rq[2])
  \/ WsCloseCid("c1")
  \/ Sweep
  \/ StartSubNewBlock
  \/ StartGetHeightReturn
  \/ NewBlock
  \/ PollTick
  \/ GetHeightReturn
  \/ \E block \in SolanaBlocks : SolanaGetHeightTxsReturn(block)

\* a Tron server: subscribe, close, and the contract transactions of the
\* blocks it polls
NextTron ==
  \/ \E c \in HeightCids, rq \in TronRequests :
       WsSubscribeAccount(c, rq[1], rq[2])
  \/ \E c \in HeightCids : WsCloseCid(c)
  \/ \E info \in TronInfos : TronContractTx(info)

\* a Tron server with one client and its block timer
NextTronPoll ==
  \/ \E rq \in TronRequests : WsSubscribeAccount("c1", rq[1], rq[2])
  \/ WsCloseCid("c1")
  \/ TronNewBlock
  \/ \E t \in 1..MaxTicks : TronTick(t)
  \/ \E t \in 1..MaxTicks, h \in 0..(MaxHeight + 1) :
       TronGetCurrentBlockReturn(t, h)
  \/ \E t \in 1..MaxTicks, infos \in {<<>>} \cup {<<i>> : i \in TronInfos} :
       TronContractTxsReturn(t, infos)

\* the two caches of a Tron server under reads, upstream answers and time
NextCache ==
  \/ \E n \in CacheNames, k \in CacheKeys : CacheRead(n, k)
  \/ \E n \in CacheNames, k \in CacheKeys, stored \in BOOLEAN :
       CacheFetchReturn(n, k, stored)
  \/ \E n \in CacheNames : DebouncerFires(n)
  \/ TimePasses

\* a TonCenter server making paginated calls
NextPaging ==
  \/ TonPaginateCall
  \/ \E n \in PageSizes : TonPageReturn(n)
  \/ TonPageFail

\* an Ankr server whose clients subscribe to a checksummed address while
\* the upstream announces blocks
NextEvm ==
  \/ \E c \in HeightCids, rq \in AnkrRequests : AnkrSubscribeBegin(c, rq[1], rq[2])
  \/ \E req \in inflight, r \in BOOLEAN : AnkrIsAccountReturn(req, r)
  \/ \E req \in inflight, r \in BOOLEAN : AnkrIsContractReturn(req, r)
  \/ \E c \in HeightCids : WsCloseCid(c)
  \/ AnkrStart
  \/ AnkrNewHeads
  \/ \E txs \in EvmBlocks : AnkrGetBlockReturn(txs)
  \/ AnkrGetBlockNone

\* the poller of a Generic server whose adapter reports the value of each
\* transaction, and of a TonCenter server fed by the indexer
NextZero ==
  \/ \E rq \in HeightRequests : WsSubscribeAccount("c1", rq[1], rq[2])
  \/ \E account \in TonRequests : TonSubscribeAccount("c1", account)
  \/ WsCloseCid("c1")
  \/ StartSubNewBlock
  \/ StartGetHeightReturn
  \/ NewBlock
  \/ PollTick
  \/ GetHeightReturn
  \/ \E txs \in ValueTxSeqs : backend = "generic" /\ GetHeightTxsReturn(txs)
  \/ \E raws \in ZeroTonBlocks : TonGetHeightTxsReturn(raws)

\* the subscription table of two connections under direct calls of
\* _addSub, with callbacks that differ from call to call
NextSubs ==
  \/ \E c \in {"c1", "c2"}, evName \in EventNames, cb \in SubCallbacks,
        arr \in ParamArrays :
       AddSubCall(c, evName, cb, arr)
  \/ \E c \in {"c1", "c2"} : WsCloseCid(c)

\* the subscription table under direct calls of _addSub, each with the
\* callbacks of its connection, and of _getEventSubs
NextEventSubs ==
  \/ \E c \in Cids, evName \in EventNames, arr \in ParamArrays :
       AddSubCall(c, evName, [send |-> c, error |-> c], arr)
  \/ \E evName \in EventNames : GetEventSubsCall(evName)
  \/ \E c \in Cids : WsCloseCid(c)

\* a Generic server whose clients subscribe with token contracts
NextLogs ==
  \/ \E c \in Cids, rq \in LogRequests : WsSubscribeAccount(c, rq[1], rq[2])
  \/ \E c \in Cids : WsCloseCid(c)
  \/ Sweep
  \/ StartSubNewBlock
  \/ StartGetHeightReturn

\* a Generic server seen for the progress of its poller: every outcome of
\* the two upstream calls, few clients and transactions
NextHeights ==
  \/ \E c \in HeightCids, rq \in HeightRequests :
       WsSubscribeAccount(c, rq[1], rq[2])
  \/ \E c \in HeightCids : WsCloseCid(c)
  \/ Sweep
  \/ StartSubNewBlock
  \/ StartGetHeightReturn
  \/ NewBlock
  \/ PollTick
  \/ GetHeightReturn
  \/ GetHeightFail
  \/ \E txs \in HeightTxSeqs : GetHeightTxsReturn(txs)
  \/ GetHeightTxsFail

\* a Generic server whose upstream calls all return and whose send
\* callbacks never throw
NextLive ==
  \/ \E rq \in HeightRequests : WsSubscribeAccount("c1", rq[1], rq[2])
  \/ WsCloseCid("c1")
  \/ Sweep
  \/ StartSubNewBlock
  \/ StartGetHeightReturn
  \/ NewBlock
  \/ PollTick
  \/ GetHeightReturn
  \/ \E txs \in HeightTxSeqs : GetHeightTxsReturn(txs)

\* a Generic server with one client whose upstream calls may fail and
\* whose send callback may throw
NextGuard ==
  \/ \E rq \in HeightRequests : WsSubscribeAccount("c1", rq[1], rq[2])
  \/ WsCloseCid("c1")
  \/ Sweep
  \/ StartSubNewBlock
  \/ StartGetHeightReturn
  \/ NewBlock
  \/ PollTick
  \/ GetHeightReturn
  \/ GetHeightFail
  \/ \E txs \in HeightTxSeqs : GetHeightTxsReturn(txs)
  \/ GetHeightTxsFail
  \/ \E txs \in HeightTxSeqs : GetHeightTxsSendThrows(txs)

\* a Generic server whose clients subscribe with tokens, and its poller
NextContracts ==
  \/ \E c \in HeightCids : \E rq \in ContractRequests(c) :
       WsSubscribeAccount(c, rq[1], rq[2])
  \/ \E c \in HeightCids : WsCloseCid(c)
  \/ Sweep
  \/ StartSubNewBlock
  \/ StartGetHeightReturn
  \/ NewBlock
  \/ PollTick
  \/ GetHeightReturn
  \/ \E txs \in HeightTxSeqs : GetHeightTxsReturn(txs)

\* a Generic server whose clients subscribe and disconnect
NextSweep ==
  \/ \E c \in Cids, rq \in HeightRequests : WsSubscribeAccount(c, rq[1], rq[2])
  \/ \E c \in Cids : WsCloseCid(c)
  \/ Sweep
  \/ StartSubNewBlock
  \/ StartGetHeightReturn

\* a Generic server and the frames its websocket connections receive
NextWs ==
  \/ \E c \in Cids, frame \in Frames : WsMessage(c, frame)
  \/ \E c \in Cids : WsCloseCid(c)
  \/ Sweep
  \/ StartSubNewBlock
  \/ StartGetHeightReturn

\* a Generic server with its height poller
NextPoll ==
  \/ \E c \in Cids : \E rq \in PollRequests(c) :
       WsSubscribeAccount(c, rq[1], rq[2])
  \/ \E c \in PollClosers : WsCloseCid(c)
  \/ Sweep
  \/ StartSubNewBlock
  \/ StartGetHeightReturn
  \/ NewBlock
  \/ PollTick
  \/ GetHeightReturn
  \/ GetHeightFail
  \/ \E txs \in TxSeqs : GetHeightTxsReturn(txs)
  \/ \E txs \in TxSeqs : GetHeightTxsSendThrows(txs)

InitTable == InitWith({"generic"})
InitAnkr == InitWith({"ankr"})
InitPoll == InitWith({"generic"})
InitTon == InitWith({"ton"})
InitZero == InitWith({"generic", "ton"})
InitTron == InitWith({"tron"})
InitSolana == InitWith({"solana"})

SpecTable == InitTable /\ [][NextTable]_vars
SpecAnkr == InitAnkr /\ [][NextAnkr]_vars
SpecPoll == InitPoll /\ [][NextPoll]_vars
SpecTokens == InitAnkr /\ [][NextTokens]_vars
SpecTon == InitTon /\ [][NextTon]_vars
SpecSolana == InitSolana /\ [][NextSolana]_vars
SpecTron == InitTron /\ [][NextTron]_vars
SpecTronPoll == InitTron /\ [][NextTronPoll]_vars
SpecCache == InitTron /\ [][NextCache]_vars
SpecEvm == InitAnkr /\ [][NextEvm]_vars
SpecZero == InitZero /\ [][NextZero]_vars
SpecSubs == InitTable /\ [][NextSubs]_vars
SpecEventSubs == InitTable /\ [][NextEventSubs]_vars
SpecLogs == InitTable /\ [][NextLogs]_vars
SpecHeights == InitTable /\ [][NextHeights]_vars
SpecContracts == InitTable /\ [][NextContracts]_vars
SpecGuard == InitTable /\ [][NextGuard]_vars
SpecWs == InitTable /\ [][NextWs]_vars
\* start() is called and runs on, the interval timer keeps firing, and
\* every upstream call made returns
SpecLive ==
  /\ InitTable
  /\ [][NextLive]_vars
  /\ WF_vars(StartSubNewBlock)
  /\ WF_vars(StartGetHeightReturn)
  /\ WF_vars(PollTick)
  /\ WF_vars(GetHeightReturn)
  /\ WF_vars(\E txs \in HeightTxSeqs : GetHeightTxsReturn(txs))

\* every upstream call of a pagination is answered
SpecPaging ==
  /\ InitTon
  /\ [][NextPaging]_vars
  /\ WF_vars((\E n \in PageSizes : TonPageReturn(n)) \/ TonPageFail)

\* start() runs to its end and the 5 s sweep timer keeps firing
SpecSweep ==
  /\ InitTable
  /\ [][NextSweep]_vars
  /\ WF_vars(StartSubNewBlock)
  /\ WF_vars(StartGetHeightReturn)
  /\ WF_vars(Sweep)

\* ------------------------------------------------- dispatch properties
\* C1 (at-most-once dispatch).  No step of the poller calls a send callback
\* twice with the same (cid, tx hash, subscribed address, token, height),
\* and no step calls it with a key that an earlier step already delivered:
\* neither a transaction that txsAt(h) lists twice nor a height processed
\* again after an aborted iteration is sent a second time.
C1_AtMostOnce ==
  [][ /\ \A i, j \in DOMAIN sendOut' :
           SentKey(sendOut'[i]) = SentKey(sendOut'[j]) => i = j
      /\ \A i \in DOMAIN sendOut' : \A j \in DOMAIN sent :
           SentKey(sendOut'[i]) # sent[j] ]_vars

\* C2 (interest isolation, token side).  Every frame sent for a transaction
\* that carries a token goes to an interest (addr, tokens) whose tokens
\* contain tx.token and whose addr is tx.from or tx.to.
C2_TokenIsolation ==
  \A i \in DOMAIN sendOut :
    sendOut[i].token # NoToken =>
      /\ sendOut[i].token \in SetOfArray(sendOut[i].tokens)
      /\ sendOut[i].addr \in {sendOut[i].tx.from, sendOut[i].tx.to}

\* C3 (interest isolation, native side, completeness).  When Generic with
\* its default matcher dispatches the transactions of a height, every
\* subscriber of the snapshot that is still connected receives a frame for
\* each transaction without token whose from or to equals the normalized
\* address of one of its interests.
C3_NativeComplete ==
  [][ \A txs \in TxSeqs :
        (backend = "generic" /\ GetHeightTxsReturn(txs)) =>
          \A si \in DOMAIN snap :
            \A ai \in DOMAIN heap[snap[si].event] :
              \A ti \in DOMAIN txs :
                LET interest == heap[snap[si].event][ai]
                    addr == NormalizeAddress(backend, interest[1])
                IN (/\ conn[snap[si].send] = "open"
                    /\ txs[ti].token = NoToken
                    /\ addr \in {txs[ti].from, txs[ti].to})
                   => \E k \in DOMAIN sendOut' :
                        /\ sendOut'[k].cid = snap[si].send
                        /\ sendOut'[k].addr = interest[1]
                        /\ sendOut'[k].tx = txs[ti] ]_vars

\* C4 (per-subscription ordering).  The frames one step sends to one
\* connection follow the order of the transactions in txsAt(h), whichever
\* interest they match, and no frame is sent to a connection for a height
\* below one it was already sent a frame for.
C4_Ordering ==
  [][ /\ \A i, j \in DOMAIN sendOut' :
           (i < j /\ sendOut'[i].cid = sendOut'[j].cid)
             => sendOut'[i].ti <= sendOut'[j].ti
      /\ \A i \in DOMAIN sendOut' : \A j \in DOMAIN sent :
           sent[j].cid = sendOut'[i].cid
             => sent[j].height <= sendOut'[i].height ]_vars

\* C5 (close stops delivery).  No step calls the send callback of a
\* connection that _wsCloseCid has closed, the dispatch of a height whose
\* subscriber snapshot was taken before the close included.
C5_CloseStopsDelivery ==
  \A i \in DOMAIN sendOut : conn[sendOut[i].cid] = "open"

\* ---------------------------------------------------- table properties
\* C6 (no subscription outlives its connection).  Once a connection has
\* closed, the table holds no live row for its cid, whatever the order of
\* a subscribe suspended in _isAccount, the close and the sweeper.
C6_NoLiveRowAfterClose ==
  \A c \in Cids : conn[c] = "closed" => GetCidSubs(subs, c) = 0

\* C7 (tombstone drop).  A subscribe that reaches _addSub while the row of
\* its cid is the tombstone changes neither the table nor the stored
\* interests arrays and invokes no callback: the tombstone stays.
C7_TombstoneDrop ==
  [][ \A req \in inflight :
        (AnkrIsContractReturn(req, FALSE) /\ IsTombstone(subs, req.cid))
          => /\ subs' = subs
             /\ heap' = heap
             /\ IsTombstone(subs', req.cid)
             /\ sendOut' = <<>>
             /\ errOut' = <<>> ]_vars

\* C7's case: a subscribe has just run into the tombstone of its cid
C7_Witness ==
  /\ lastOp.op = "subscribe"
  /\ lastOp.outcome = "dropped"
  /\ IsTombstone(subs, lastOp.cid)
  /\ conn[lastOp.cid] = "closed"

\* C8 (duplicate subscribe).  A subscribe whose normalized address is
\* already among the interests of its cid is answered through the error
\* callback and leaves table and interests as they were; no interests
\* array ever holds an address twice.
C8_DuplicateRejected ==
  [][ /\ \A req \in inflight :
           (/\ AnkrIsContractReturn(req, FALSE)
            /\ GetCidSubs(subs, req.cid) # 0
            /\ AcctExists(heap[GetCidSubs(subs, req.cid)],
                          NormalizeAddress(backend, req.account)))
             => /\ errOut' # <<>>
                /\ subs' = subs
                /\ heap' = heap
      /\ \A id \in DOMAIN heap' : \A i, j \in DOMAIN heap'[id] :
           heap'[id][i][1] = heap'[id][j][1] => i = j ]_vars

C10_CapacityCountsLive ==
  (lastOp.op = "subscribe" /\ lastOp.outcome = "capacity")
    => LiveCount(subs) >= MAX_SUB_SIZE

\* ------------------------------------------------------- size properties
\* the number of [address, tokens] entries in the interests arrays that the
\* live rows of the table hold
RECURSIVE InterestCount(_, _)
InterestCount(s, h) ==
  IF s = <<>> THEN 0
  ELSE (IF IsLive(Head(s)) THEN Len(h[Head(s).val.ev]) ELSE 0)
       + InterestCount(Tail(s), h)

\* C11 (cap on subscriptions as address interests).  The number of
\* (address, tokens) interests held over all connections never exceeds
\* _MAX_SUB_SIZE, subscribes of one connection to several addresses
\* included.
C11_InterestCap == InterestCount(subs, heap) <= MAX_SUB_SIZE

\* C12 (ContractInterestSet bound).  _contractLogSubs never holds more
\* than 50 entries, however many tokens a subscribe carries.
C12_ContractSetBound == Len(contractLogSubs) <= MAX_CONTRACTS

\* C13 (one upstream filter per token).  _subToContract is called at most
\* once for each token address: the calls made so far name no token twice.
C13_OneFilterPerToken ==
  \A i, j \in DOMAIN subToContractCalls :
    subToContractCalls[i] = subToContractCalls[j] => i = j

\* --------------------------------------------------- poller properties
\* C14 (idle efficiency).  Whenever the poller, having read the upstream
\* height, finds _getEventSubs empty, it calls _getHeightTxs for no
\* height and returns; if heights have arrived since _lastHeight, it sets
\* _lastHeight to the height it read.  Tombstoned rows are no subscribers.
C14_IdleEfficiency ==
  [][ (GetHeightReturn /\ GetEventSubs(subs) = <<>>)
        => /\ fetched' = fetched
           /\ pc' = "idle"
           /\ lastHeight < chainHeight => lastHeight' = chainHeight ]_vars

\* C14's case: with only a tombstone in the table the poller has skipped
\* to a height above the one start() read, without any fetch
C14_Witness ==
  /\ lastOp = Op("getHeight", "-", "ok")
  /\ \E c \in Cids : IsTombstone(subs, c)
  /\ startPc = "started"
  /\ startHeight < lastHeight
  /\ lastHeight = chainHeight
  /\ fetched = {}
  /\ pc = "idle"

\* C15 (monotonic progress).  Once start() has been called, no step
\* lowers _lastHeight.
C15_MonotonicProgress ==
  [][ startPc # "new" => lastHeight' >= lastHeight ]_vars

\* C16 (no history replay at start).  Once start() has read the adapter
\* height, every height _getHeightTxs was ever called for lies above it.
C16_NoReplayAtStart ==
  startPc = "started" => \A h \in fetched : h > startHeight

\* C18 (upstream soft failure).  A step in which _getHeightTxs(h) fails
\* does not advance _lastHeight to h or beyond.
C18_SoftFailure ==
  [][ (GetHeightTxsFail /\ lastHeight < height) => lastHeight' < height ]_vars

\* C17 (convergence).  If the upstream height stays at H from some point
\* on, then from some point on _lastHeight equals H.
C17_Convergence ==
  \A H \in 0..MaxHeight : <>[](chainHeight = H) => <>[](lastHeight = H)

\* C17's case: the poller has fetched a height that arrived after start()
\* and has caught up with the upstream
C17_Witness ==
  /\ startPc = "started"
  /\ startHeight < chainHeight
  /\ chainHeight \in fetched
  /\ lastHeight = chainHeight
  /\ pc = "idle"

\* C19 (delivery failure isolation).  When a send callback throws during
\* the dispatch of a height, every frame due to another connection for
\* that height is still sent and _lastHeight advances to that height.
C19_DeliveryFailureIsolation ==
  [][ \A txs \in TxSeqs :
        GetHeightTxsSendThrows(txs) =>
          LET frames == DispatchFrames(backend, heap, snap, txs, height)
              failed == sendOut'[Len(sendOut')]
          IN /\ lastHeight' >= height
             /\ \A i \in DOMAIN frames :
                  frames[i].cid # failed.cid
                    => \E k \in DOMAIN sendOut' : sendOut'[k] = frames[i] ]_vars

\* ------------------------------------------------ websocket properties
\* C20 (bad frame handling).  Every frame that is not valid JSON, or is
\* valid JSON without a method, is answered with the error frame
\* { error: 'bad request format' } on its connection and changes neither
\* the subscription table nor the contract list.
C20_BadFrame ==
  [][ \A c \in Cids : \A frame \in Frames :
        (WsMessage(c, frame) /\ (~frame.valid \/ frame.method = NoMethod))
          => /\ errOut' = ErrorCb(c, "bad request format")
             /\ UNCHANGED <<subs, heap, contractLogSubs>> ]_vars

\* ------------------------------------------------- validation properties
\* C21 (token validation).  A subscribe whose token list holds at least
\* one plain account is answered 'not an eth contract' through the error
\* callback, whatever the upstream answers for the list as a whole, and
\* adds nothing to the subscription table or the contract list.
C21_TokenValidation ==
  [][ \A req \in inflight : \A r \in BOOLEAN :
        (/\ AnkrIsContractReturn(req, r)
         /\ \E i \in DOMAIN req.tokens : req.tokens[i] \in EthAccounts)
          => /\ errOut' = ErrorCb(req.cid, "not an eth contract")
             /\ UNCHANGED <<subs, heap, contractLogSubs>> ]_vars

\* ---------------------------------------------------- adapter properties
\* the records of the transactions of a block that parse, in block order
TonParsedOf(raws, ix) ==
  LET parsed == [i \in DOMAIN raws |-> TonParseTx(raws[i], ix)]
      IsRecord(r) == r.kind = "record"
      kept == SelectSeq(parsed, IsRecord)
  IN [i \in DOMAIN kept |-> kept[i].tx]

\* C22 (partial failure tolerance of txsAt).  Every _getHeightTxs call
\* for a height with several transactions returns, and what it returns
\* are the normalized records of the transactions that parse: a
\* transaction whose parsing fails is dropped alone, the others are still
\* returned.
C22_PartialFailure ==
  (heightTxs.status # "none" /\ Len(rawBlock) >= 2) =>
    /\ heightTxs.status = "returned"
    /\ heightTxs.txs = TonParsedOf(rawBlock, heightTxs.ix)

\* C23 (EVM token event end to end).  When the log subscription installed
\* for a token pushes a Transfer log that decodes, every live subscription
\* with an interest (addr, tokens) whose tokens hold that token and whose
\* addr is the lower-cased from or to of the log is sent exactly one frame
\* with that token and the log's blockNumber as height.
C23_TokenEventDelivered ==
  [][ \A log \in AnkrLogs :
        (AnkrLogData(log) /\ log.decodable) =>
          \A r \in DOMAIN subs :
            IsLive(subs[r]) =>
              \A a \in DOMAIN heap[subs[r].val.ev] :
                LET interest == heap[subs[r].val.ev][a]
                IN (/\ log.address \in SetOfArray(interest[2])
                    /\ interest[1] \in {ToLowerCase(log.from),
                                        ToLowerCase(log.to)})
                   => Cardinality(
                        {k \in DOMAIN sendOut' :
                           /\ sendOut'[k].cid = subs[r].val.send
                           /\ sendOut'[k].token = log.address
                           /\ sendOut'[k].height = log.blockNumber}) = 1 ]_vars

\* C24 (Solana native deposit end to end).  When the poller of a Solana
\* server processes a height whose block holds a successful transaction in
\* which the balance of account index j grew and accountKeys[j] is an
\* address of a connected subscriber of the snapshot, that subscriber is
\* sent exactly one frame with tx.to the address, tx.value the balance
\* difference and no tx.from.
C24_SolanaDeposit ==
  [][ \A block \in SolanaBlocks :
        SolanaGetHeightTxsReturn(block) =>
          \A i \in DOMAIN block : \A j \in DOMAIN block[i].postBalances :
            \A si \in DOMAIN snap : \A ai \in DOMAIN heap[snap[si].event] :
              LET tx == block[i]
                  addr == heap[snap[si].event][ai][1]
              IN (/\ ~tx.failed
                  /\ tx.postBalances[j] > tx.preBalances[j]
                  /\ tx.accountKeys[j] = addr
                  /\ conn[snap[si].send] = "open")
                 => Cardinality(
                      {k \in DOMAIN sendOut' :
                         /\ sendOut'[k].cid = snap[si].send
                         /\ sendOut'[k].tx.hash = tx.signature
                         /\ sendOut'[k].tx.to = addr
                         /\ sendOut'[k].tx.from = NoAddr}) = 1 ]_vars

\* the frames C25 asks for: one for every interest (addr, tokens) of a
\* live row whose tokens hold the base58 contract address of the record
\* and whose addr is, case aside, the decoded sender or recipient
TronFramesDue(s, h, info) ==
  LET log == info.log[1]
      token == FromHex(info.contract_address)
      from == FromHex(TopicAddress(log.topics[2]))
      to == FromHex(TopicAddress(log.topics[3]))
  IN {[cid |-> s[r].val.send, addr |-> h[s[r].val.ev][a][1], token |-> token,
       tx |-> [height |-> info.blockNumber, txid |-> info.id, from |-> from,
               to |-> to, value |-> ParseInt16(log.data), fee |-> info.fee]] :
        <<r, a>> \in {ra \in (DOMAIN s) \X (1..(MaxInterests + 1)) :
                        /\ IsLive(s[ra[1]])
                        /\ ra[2] \in DOMAIN h[s[ra[1]].val.ev]
                        /\ token \in SetOfArray(h[s[ra[1]].val.ev][ra[2]][2])
                        /\ ToLowerCase(h[s[ra[1]].val.ev][ra[2]][1])
                             \in {ToLowerCase(from), ToLowerCase(to)}}}

\* what a frame of C25 carries: the receipt, which the claim leaves open,
\* put aside
WithoutReceipt(f) == [k \in DOMAIN f \ {"receipt"} |-> f[k]]

\* C25 (Tron contract event dispatch).  For a transaction-info record with
\* a single Transfer log the frames sent are exactly one per interest
\* whose tokens hold the base58 contract address and whose addr is the
\* decoded sender or recipient, case aside; each carries addr, token and
\* tx with height, txid, from, to, value and fee of the record.
C25_TronContractEvent ==
  [][ \A info \in TronInfos :
        TronContractTx(info) =>
          /\ {WithoutReceipt(sendOut'[k]) : k \in DOMAIN sendOut'}
               = TronFramesDue(subs, heap, info)
          /\ Len(sendOut') = Cardinality(TronFramesDue(subs, heap, info)) ]_vars

\* ------------------------------------------------ table method properties
\* C26 (_getEventSubs).  A call _getEventSubs(ev) returns one element
\* {event, send} for every row that holds an interests array for ev, in
\* the order of the table, and nothing else: tombstones and rows that hold
\* only other events are left out.  The call changes neither the table nor
\* the interests arrays.
C26_GetEventSubs ==
  [][ \A evName \in EventNames :
        (lastOp' = Op("getEventSubs", "-", evName)
           /\ GetEventSubsCall(evName)) =>
          LET holders == {i \in DOMAIN subs :
                            IsLive(subs[i]) /\ RowEvent(subs[i].val, evName) # 0}
              Nth(k) == CHOOSE i \in holders :
                          Cardinality({j \in holders : j < i}) = k - 1
          IN /\ Len(eventSubs') = Cardinality(holders)
             /\ \A k \in 1..Cardinality(holders) :
                  eventSubs'[k] = [event |-> RowEvent(subs[Nth(k)].val, evName),
                                   send |-> subs[Nth(k)].val.send]
             /\ UNCHANGED <<subs, heap>> ]_vars

\* C26's case: the call has just returned the one holder of a table that
\* also has a tombstone and a row with only the other event
C26_Witness ==
  /\ lastOp.op = "getEventSubs"
  /\ eventSubs = GetEventSubsOf(subs, lastOp.outcome)
  /\ Len(eventSubs) = 1
  /\ \E i \in DOMAIN subs : ~IsLive(subs[i])
  /\ \E i \in DOMAIN subs :
       IsLive(subs[i]) /\ RowEvent(subs[i].val, lastOp.outcome) = 0

\* C27 (_addSub creates or extends).  For a cid without row _addSub
\* appends a row with the send and error callbacks of the call and the
\* given interests under the event name, and nothing under the other.  For
\* a cid with a live row it puts the given interests under the event name
\* and leaves the callbacks of the row and its interests for the other
\* event as they were.  The rows of all other cids stay as they were.
C27_AddSub ==
  [][ \A c \in {"c1", "c2"}, evName \in EventNames, cb \in SubCallbacks,
         arr \in ParamArrays :
        (lastOp' = Op("addSub", c, lastOp'.outcome)
           /\ AddSubCall(c, evName, cb, arr)) =>
          LET otherName == CHOOSE e \in EventNames : e # evName
              new == MapGet(subs', c)
          IN /\ \A i \in DOMAIN subs : subs[i].cid # c => subs'[i] = subs[i]
             /\ ~MapHas(subs, c) =>
                  /\ Len(subs') = Len(subs) + 1
                  /\ subs'[Len(subs')].cid = c
                  /\ new.live
                  /\ new.send = cb.send
                  /\ new.error = cb.error
                  /\ heap'[RowEvent(new, evName)] = arr
                  /\ RowEvent(new, otherName) = 0
             /\ (MapHas(subs, c) /\ MapGet(subs, c).live) =>
                  /\ Len(subs') = Len(subs)
                  /\ RowIndex(subs', c) = RowIndex(subs, c)
                  /\ new.live
                  /\ new.send = MapGet(subs, c).send
                  /\ new.error = MapGet(subs, c).error
                  /\ heap'[RowEvent(new, evName)] = arr
                  /\ RowEvent(new, otherName) = RowEvent(MapGet(subs, c), otherName)
                  /\ RowEvent(new, otherName) # 0 =>
                       heap'[RowEvent(new, otherName)]
                         = heap[RowEvent(new, otherName)] ]_vars

\* C27's case: _addSub has just put interests under a second event name
\* into the live row of a cid, next to the row of another cid
C27_Witness ==
  /\ lastOp.op = "addSub"
  /\ lastOp.outcome = "extended"
  /\ Len(subs) >= 2
  /\ MapGet(subs, lastOp.cid).ev # 0
  /\ MapGet(subs, lastOp.cid).other # 0

\* ------------------------------------------------- the poller's guard
\* C28 (single-writer guard).  _heightProcessing is true exactly while an
\* iteration of _processHeight is past the guard.  A tick that finds the
\* flag true returns: it starts no second iteration, calls no adapter
\* method and leaves the position and the locals of the iteration in
\* flight alone.  The flag is false after an iteration has ended: after the
\* loop has run out, after the return for no subscriber, after _getHeight
\* has rejected and after a send callback has thrown in the dispatch.
C28_SingleWriterGuard ==
  /\ [](heightProcessing <=> pc # "idle")
  /\ [][ (PollTick /\ heightProcessing) =>
           (lastOp'.outcome = "busy" /\ UNCHANGED pollerVars) ]_vars
  /\ [][ (GetHeightReturn
             /\ (lastHeight + 1 > chainHeight \/ GetEventSubs(subs) = <<>>)) =>
           (~heightProcessing' /\ pc' = "idle") ]_vars
  /\ [][ ((\E txs \in HeightTxSeqs : GetHeightTxsReturn(txs))
             /\ (height + 1 > currentHeight \/ GetEventSubs(subs) = <<>>)) =>
           (~heightProcessing' /\ pc' = "idle") ]_vars
  /\ [][ GetHeightFail => (~heightProcessing' /\ pc' = "idle") ]_vars
  /\ [][ (\E txs \in HeightTxSeqs : GetHeightTxsSendThrows(txs)) =>
           (~heightProcessing' /\ pc' = "idle") ]_vars

\* C28's case: a tick has just found the flag set by an iteration that is
\* suspended in _getHeightTxs of a height above the first one
C28_Witness ==
  /\ lastOp = Op("tick", "-", "busy")
  /\ heightProcessing
  /\ pc = "getTxs"
  /\ height > startHeight + 1

\* C29 (stable dispatch snapshot).  While an iteration of _processHeight
\* is suspended in _getHeightTxs, a _wsSubscribeAccount leaves every
\* interests array of the snapshot the iteration took as it was: no address
\* is added to a list the dispatch is going to iterate.
C29_StableSnapshot ==
  [][ (pc = "getTxs" /\ lastOp'.op = "subscribe") =>
        \A si \in DOMAIN snap :
          heap'[snap[si].event] = heap[snap[si].event] ]_vars

\* C30 (heights ascending, each at most once).  Every call of
\* _getHeightTxs made by the poller is for a height above all the heights
\* it has fetched before.
C30_AscendingFetch ==
  [][ (pc' = "getTxs" /\ lastOp'.op \in {"getHeight", "dispatch"}) =>
        \A h \in fetched : h < height' ]_vars

\* ------------------------------------------------------- the sweeper
\* C31 (sweeper).  With the sweep timer firing again and again, every row
\* that _wsCloseCid has set to the tombstone is deleted from the table in
\* the end.  A sweep deletes tombstoned rows only: every live row is in the
\* table after it, with the value and at the rank among the live rows it
\* had before, and the interests arrays are untouched.
C31_Sweeper ==
  /\ \A c \in Cids : IsTombstone(subs, c) ~> ~MapHas(subs, c)
  /\ [][ Sweep =>
           /\ \A i \in DOMAIN subs :
                IsLive(subs[i]) =>
                  /\ MapHas(subs', subs[i].cid)
                  /\ MapGet(subs', subs[i].cid) = subs[i].val
                  /\ RowIndex(subs', subs[i].cid)
                       = Cardinality({j \in 1..i : IsLive(subs[j])})
           /\ \A i \in DOMAIN subs' : MapHas(subs, subs'[i].cid)
           /\ \A i \in DOMAIN subs' : IsLive(subs'[i])
           /\ heap' = heap ]_vars

\* C31's case: a sweep has just deleted the row of a closed connection
\* and left the row of a live one
C31_Witness ==
  /\ lastOp.op = "sweep"
  /\ \E c \in Cids : conn[c] = "closed" /\ ~MapHas(subs, c)
  /\ \E i \in DOMAIN subs : IsLive(subs[i])

\* ------------------------------------------------------ Tron's poller
\* C32 (Tron poller, overlapping ticks).  No run of #subNewBlock sends a
\* subscription a native frame for a transaction, address and height that
\* it or an earlier run has already sent to it.
C32_TronAtMostOnce ==
  [][ lastOp'.op = "getCurrentBlock" =>
        /\ \A i, j \in DOMAIN sendOut' :
             TronSentKey(sendOut'[i]) = TronSentKey(sendOut'[j]) => i = j
        /\ \A i \in DOMAIN sendOut' :
             TronSentKey(sendOut'[i]) \notin tronSent ]_vars

\* C33 (Tron poller, monotonic height).  #lastProcessedBlock never
\* decreases.
C33_TronMonotonic ==
  [][ lastProcessedBlock' >= lastProcessedBlock ]_vars

\* ------------------------------------------- the ContractInterestSet
\* C34 (subscribe on a closing connection).  A subscribe that runs while
\* the row of its cid is the tombstone changes nothing: the table and the
\* contract list stay as they are and _subToContract is not called.
C34_ClosingSubscribeNoEffect ==
  [][ \A req \in inflight :
        (AnkrIsContractReturn(req, FALSE) /\ IsTombstone(subs, req.cid))
          => /\ subs' = subs
             /\ contractLogSubs' = contractLogSubs
             /\ subToContractCalls' = subToContractCalls ]_vars

\* C35 (ContractInterestSet is append-only).  Every step leaves the
\* entries of _contractLogSubs where they are and at most appends to them:
\* subscribe, rejected subscribe, close, sweep and poll remove none.  After
\* the close of a connection the list is what it was before.
C35_AppendOnly ==
  /\ [][ /\ Len(contractLogSubs') >= Len(contractLogSubs)
         /\ SubSeq(contractLogSubs', 1, Len(contractLogSubs)) = contractLogSubs
       ]_vars
  /\ [][ \A c \in Cids :
           WsCloseCid(c) => contractLogSubs' = contractLogSubs ]_vars

\* C35's case: the last connection interested in a token has just closed
\* and the token is still in the list
C35_Witness ==
  /\ lastOp.op = "close"
  /\ GetEventSubs(subs) = <<>>
  /\ Len(contractLogSubs) = 2

\* ------------------------------------------------------ Tron's caches
\* C36 (debounced cache).  For each of the two caches: at most one clear
\* timer is pending; a write leaves one timer pending, with the whole
\* timeout ahead of it; while the cache holds an entry its timer is
\* pending and due one timeout after the last write; entries leave the
\* cache only by the timer's clear, which empties it and does not run
\* before a timeout has passed since the last write; and a read of a key
\* the cache holds starts no upstream call.
C36_DebouncedCache ==
  /\ [](\A n \in CacheNames : Len(tronCaches[n].pending) <= 1)
  /\ [](\A n \in CacheNames :
          tronCaches[n].entries # {} =>
            tronCaches[n].pending = <<Timeout - tronCaches[n].age>>)
  /\ [][ \A n \in CacheNames, k \in CacheKeys :
           CacheFetchReturn(n, k, TRUE) =>
             /\ tronCaches'[n].pending = <<Timeout>>
             /\ tronCaches'[n].entries = tronCaches[n].entries \cup {k} ]_vars
  /\ [][ \A n \in CacheNames :
           ~(tronCaches[n].entries \subseteq tronCaches'[n].entries) =>
             /\ DebouncerFires(n)
             /\ tronCaches'[n].entries = {}
             /\ tronCaches[n].age = Timeout ]_vars
  /\ [][ \A n \in CacheNames, k \in CacheKeys :
           (CacheRead(n, k) /\ k \in tronCaches[n].entries) =>
             /\ tronCaches'[n].calls = tronCaches[n].calls
             /\ lastOp'.outcome = "hit" ]_vars

\* C36's case: a cache has just been cleared by its timer, after a second
\* write had re-armed it, while the other still holds an entry
C36_Witness ==
  /\ lastOp.op = "cacheClear"
  /\ tronCaches[lastOp.cid].entries = {}
  /\ tronCaches[lastOp.cid].pending = <<>>
  /\ \E n \in CacheNames :
       /\ tronCaches[n].entries = CacheKeys
       /\ tronCaches[n].age > 0

\* ---------------------------------------------------- TON pagination
\* C37 (TON pagination terminates).  A _paginateIndexerCall whose upstream
\* calls are answered comes to an end.  It makes at most 250 upstream
\* calls, the k-th with limit 200 and offset 200 * (k - 1); it makes no
\* call after a page of fewer than 200 items; and what it returns holds
\* the processed items of every page it fetched, in the order of the pages.
C37_PaginationTerminates ==
  /\ (tonPaging.pc = "call") ~> (tonPaging.pc \in {"done", "rejected"})
  /\ [](/\ Len(tonPaging.calls) <= 250
        /\ \A k \in DOMAIN tonPaging.calls :
             tonPaging.calls[k] = [limit |-> 200, offset |-> 200 * (k - 1)])
  /\ [](tonPaging.pc = "call" =>
          /\ Len(tonPaging.ret) = Len(tonPaging.calls) - 1
          /\ \A k \in DOMAIN tonPaging.ret : tonPaging.ret[k].items = 200)
  /\ [](tonPaging.pc = "done" =>
          /\ Len(tonPaging.ret) = Len(tonPaging.calls)
          /\ \A k \in DOMAIN tonPaging.ret :
               /\ tonPaging.ret[k].offset = tonPaging.calls[k].offset
               /\ k < Len(tonPaging.ret) => tonPaging.ret[k].items = 200
          /\ \/ tonPaging.ret[Len(tonPaging.ret)].items < 200
             \/ Len(tonPaging.calls) = 250)

\* C37's case: a call has ended at its 250th page, a full one
C37_Witness ==
  /\ tonPaging.pc = "done"
  /\ Len(tonPaging.calls) = 250
  /\ tonPaging.ret[250].items = 200
  /\ lastOp.outcome = "page-limit"

\* ------------------------------------------------ EVM native matching
\* C38 (EVM native matching is case-insensitive).  When the block of a
\* newHeads announcement is filtered, every subscription of the filter
\* that holds an address equal, up to letter case, to the from or the to
\* of a transaction of the block is sent a frame with that transaction and
\* that address.
C38_CaseInsensitiveMatch ==
  [][ (lastOp'.op = "newHeads" /\ lastOp'.outcome = "filtered") =>
        \A ti \in DOMAIN rawBlock' : \A si \in DOMAIN snap :
          \A ai \in DOMAIN heap[snap[si].event] :
            LET tx == rawBlock'[ti]
                addr == heap[snap[si].event][ai][1]
            IN (\/ ToLowerCase(tx.from) = ToLowerCase(addr)
                \/ ToLowerCase(tx.to) = ToLowerCase(addr))
               => \E k \in DOMAIN sendOut' :
                    sendOut'[k] = EvmFrame(snap[si], addr, tx) ]_vars

\* ------------------------------------------------- zero-value records
\* C39 (zero-value records are never dispatched).  No send call made by
\* the dispatch loop of the generic poller carries a transaction whose
\* value is 0.
C39_ZeroValueNeverDispatched ==
  \A i \in DOMAIN sendOut : sendOut[i].tx.value # 0

====
